---------------------------- MODULE Spec2Model ----------------------------
(***************************************************************************)
(* Model of the widgets package: the command-string lexer and parser       *)
(* (command_parser.py), the option classes and process_values              *)
(* (options.py), the widget template tag (templatetags/widget_tags.py)     *)
(* widget-node discovery with media merging (template.py) and the widget   *)
(* class registry with its autodiscover (registry.py).                     *)
(*                                                                         *)
(* A Python str is a sequence of one-character strings; a list is a        *)
(* sequence; a dict is a function on its key set.                          *)
(***************************************************************************)
EXTENDS Integers, Sequences, FiniteSets, TLC

VARIABLES
  lexArgs,    \* the `arguments` handed to OptionLexer(arguments)
  lexer,      \* the OptionLexer object, NoLexer before it is constructed
  pvOptions,  \* the `options` handed to process_values(values, options)
  pvValues,   \* the `values` handed to process_values(values, options)
  pvResult,   \* what that call of process_values returned or raised
  tagOptions, \* widget_class.options of the class a {% widget %} tag names
  tagArgs,    \* the `arguments` of the tag: token.split_contents()[2:]
  palOptions, \* the `option_list` of a parse_argument_list call followed step by step
  palArgs,    \* the `arguments` of that call
  palLexer,   \* its `lexer`
  palOpt,     \* its `opt`: the index in option_list of the option last found, 0 before
  palValues,  \* its `values`: the pairs appended so far
  palPc,      \* where the call stands: start, find, parse, returned or raised
  node,       \* the WidgetRenderNode: its values, or what __init__ raised
  rendered,   \* the last WidgetRenderNode.render(context): context and outcome
  templates,  \* the compiled templates the loader knows: name -> nodelist
  hostMedia,  \* the Media object the host keeps to pass as media=, or NoMedia
  wrapper,    \* the last WidgetTemplateWrapper constructed, or NoWrapper
  installed,  \* settings.INSTALLED_APPS: what importing each app's widgets does
  mainPackage, \* what importing the top-level package named widget_noun does
  register,   \* registry._register: qualified class name -> widget class
  before_import_register, \* the local of autodiscover, unbound at first
  adApp,      \* the index in INSTALLED_APPS of the app autodiscover is at
  adPc,       \* where autodiscover stands: idle, apps, done or raised
  findPc,     \* per request thread: idle, or register inside registry.find
  findName,   \* per request thread: the classname of its last find
  findResult  \* per request thread: what its last find returned or raised

lexVars == <<lexArgs, lexer>>
pvVars == <<pvOptions, pvValues, pvResult>>
tagVars == <<tagOptions, tagArgs, node, rendered>>
tplVars == <<templates, hostMedia, wrapper>>
palVars == <<palOptions, palArgs, palLexer, palOpt, palValues, palPc>>
regVars == <<installed, mainPackage, register, before_import_register,
             adApp, adPc, findPc, findName, findResult>>
vars == <<lexArgs, lexer, pvOptions, pvValues, pvResult,
          palOptions, palArgs, palLexer, palOpt, palValues, palPc,
          tagOptions, tagArgs, node, rendered, templates, hostMedia, wrapper,
          installed, mainPackage, register, before_import_register,
          adApp, adPc, findPc, findName, findResult>>

----------------------------------------------------------------------------
(* Bounds of the model *)

\* longest raw argument string handed to the lexer
MaxLen == 5
\* longest list of tokens handed to the lexer
MaxLexList == 3
\* most arguments of a {% widget %} tag
MaxArgs == 4
\* deepest nesting of _find_widget_nodes calls before Python gives up
MaxRecursion == 6
\* most apps in INSTALLED_APPS
MaxApps == 2

----------------------------------------------------------------------------
(* Python values *)

\* Python's None where a str is expected (no str has a several-letter character)
None == <<"None">>

DQ == "\""
SQ == "'"
SP == " "
NL == "\n"
DASH == "-"

\* the characters str.strip() removes
Whitespace == {SP, NL, "\t"}

\* the characters raw argument strings are drawn from
Chars == {"a", DASH, SP, DQ, SQ, NL}

StringsUpTo(n) == UNION {[1..k -> Chars] : k \in 0..n}

\* str.startswith(prefix)
StartsWith(s, prefix) ==
  /\ Len(s) >= Len(prefix)
  /\ SubSeq(s, 1, Len(prefix)) = prefix

\* str.strip(): leading and trailing whitespace removed
RECURSIVE LStrip(_)
LStrip(s) ==
  IF s # <<>> /\ Head(s) \in Whitespace THEN LStrip(Tail(s)) ELSE s

RECURSIVE RStrip(_)
RStrip(s) ==
  IF s # <<>> /\ s[Len(s)] \in Whitespace
  THEN RStrip(SubSeq(s, 1, Len(s) - 1)) ELSE s

Strip(s) == RStrip(LStrip(s))

----------------------------------------------------------------------------
(* command_parser.py: OptionLexer *)

\* index of the first q after position i with no newline before it, 0 if none:
\* where the lazy ".*?" of a quoted alternative stops ('.' matches no newline)
RECURSIVE ClosingQuote(_, _, _)
ClosingQuote(s, q, j) ==
  IF j > Len(s) THEN 0
  ELSE IF s[j] = q THEN j
  ELSE IF s[j] = NL THEN 0
  ELSE ClosingQuote(s, q, j + 1)

\* length of the match of ( |".*?"|'.*?') that starts at position i, 0 if none
MatchAt(s, i) ==
  IF s[i] = SP THEN 1
  ELSE IF s[i] \in {DQ, SQ} /\ ClosingQuote(s, s[i], i + 1) # 0
       THEN ClosingQuote(s, s[i], i + 1) - i + 1
  ELSE 0

\* re.split with one capturing group: the text between matches and the matches
RECURSIVE SplitFrom(_, _, _, _)
SplitFrom(s, i, start, acc) ==
  IF i > Len(s) THEN Append(acc, SubSeq(s, start, Len(s)))
  ELSE IF MatchAt(s, i) > 0
       THEN SplitFrom(s, i + MatchAt(s, i), i + MatchAt(s, i),
                      acc \o <<SubSeq(s, start, i - 1),
                               SubSeq(s, i, i + MatchAt(s, i) - 1)>>)
  ELSE SplitFrom(s, i + 1, start, acc)

ReSplit(s) == SplitFrom(s, 1, 1, <<>>)

\* "-%s" % flag for every flag of token[1:]
ExpandFlags(token) == [k \in 1..(Len(token) - 1) |-> <<DASH, token[k + 1]>>]

\* a slip in _expanded: the test for a second '-' is left out
RECURSIVE ExpandedAnyDash(_)
ExpandedAnyDash(tokens) ==
  IF tokens = <<>> THEN <<>>
  ELSE LET token == Head(tokens) IN
       IF StartsWith(token, <<DASH>>)
       THEN ExpandFlags(token) \o ExpandedAnyDash(Tail(tokens))
       ELSE IF Len(Strip(token)) > 0
            THEN <<token>> \o ExpandedAnyDash(Tail(tokens))
            ELSE ExpandedAnyDash(Tail(tokens))

\* OptionLexer._expanded
RECURSIVE Expanded(_)
Expanded(tokens) ==
  IF tokens = <<>> THEN <<>>
  ELSE LET token == Head(tokens) IN
       IF StartsWith(token, <<DASH>>) /\ ~StartsWith(token, <<DASH, DASH>>)
       THEN ExpandFlags(token) \o Expanded(Tail(tokens))
       ELSE IF Len(Strip(token)) > 0
            THEN <<token>> \o Expanded(Tail(tokens))
            ELSE Expanded(Tail(tokens))

\* the arguments of OptionLexer: a str or a list of str
StrArgs(s) == [isstr |-> TRUE, str |-> s, list |-> <<>>]
ListArgs(l) == [isstr |-> FALSE, str |-> <<>>, list |-> l]

\* OptionLexer.__init__
OptionLexer(arguments) ==
  [iterator |-> Expanded(IF arguments.isstr
                         THEN ReSplit(Strip(arguments.str))
                         ELSE arguments.list),
   exhausted |-> FALSE,
   token |-> None]

\* OptionLexer.token_is_option
TokenIsOption(lx) == StartsWith(lx.token, <<DASH>>)

\* a slip in consume: the cursor wraps to no token and the flag is cleared
ConsumeResets(lx) ==
  IF lx.iterator # <<>>
  THEN [lx EXCEPT !.token = Head(lx.iterator), !.iterator = Tail(lx.iterator),
                  !.exhausted = FALSE]
  ELSE [lx EXCEPT !.exhausted = ~lx.exhausted]

\* OptionLexer.consume
Consume(lx) ==
  IF lx.iterator # <<>>
  THEN [lx EXCEPT !.token = Head(lx.iterator), !.iterator = Tail(lx.iterator)]
  ELSE [lx EXCEPT !.exhausted = TRUE]

NoLexer == [iterator |-> <<>>, exhausted |-> FALSE, token |-> <<"NoLexer">>]

\* the tokens a list handed to the lexer is drawn from
LexListTokens ==
  {<<DASH, "a", "b">>, <<DASH, DASH, "a">>, <<"a">>, <<SP>>,
   <<DQ, "a", SP, "b", DQ>>, <<DASH>>}

ListsUpTo(S, n) == UNION {[1..k -> S] : k \in 0..n}

LexIdle ==
  /\ lexArgs = ListArgs(<<>>)
  /\ lexer = NoLexer

LexInit ==
  /\ lexArgs \in {StrArgs(s) : s \in StringsUpTo(MaxLen)}
                 \cup {ListArgs(l) : l \in ListsUpTo(LexListTokens, MaxLexList)}
  /\ lexer = NoLexer

\* lexer = OptionLexer(arguments)
LexerNew ==
  /\ lexer = NoLexer
  /\ lexer' = OptionLexer(lexArgs)
  /\ UNCHANGED lexArgs
  /\ UNCHANGED <<pvVars, tagVars, tplVars, palVars, regVars>>

\* lexer.consume()
LexerConsume ==
  /\ lexer # NoLexer
  /\ lexer' = Consume(lexer)
  /\ UNCHANGED lexArgs
  /\ UNCHANGED <<pvVars, tagVars, tplVars, palVars, regVars>>


----------------------------------------------------------------------------
(* Python objects as records of one shape: t is the type, v the text of a    *)
(* str, int or key, items the elements of a list                             *)

PyNone == [t |-> "None", v |-> <<>>, items |-> <<>>]
PyStr(s) == [t |-> "str", v |-> s, items |-> <<>>]
PyInt(digits) == [t |-> "int", v |-> digits, items |-> <<>>]
PyBool(b) == [t |-> "bool", v |-> <<IF b THEN "True" ELSE "False">>, items |-> <<>>]
PyList(l) == [t |-> "list", v |-> <<>>, items |-> l]
\* a models.Model instance, known by the value of its key field
PyModel(key) == [t |-> "Model", v |-> key, items |-> <<>>]
\* django.template.Variable(var), not yet resolved
Variable(var) == [t |-> "Variable", v |-> var, items |-> <<>>]

\* Python truth of a value: `if value:`
Truthy(value) ==
  CASE value.t = "None" -> FALSE
    [] value.t = "str" -> value.v # <<>>
    [] value.t = "int" -> value.v # <<"0">>
    [] value.t = "bool" -> value.v = <<"True">>
    [] value.t = "list" -> value.items # <<>>
    [] OTHER -> TRUE

\* str.replace('_', '-')
ReplaceUnderscore(s) == [k \in DOMAIN s |-> IF s[k] = "_" THEN DASH ELSE s[k]]

----------------------------------------------------------------------------
(* options.py: the option classes *)

\* Option.__init__
Option(name, short_form, long_form, default, required) ==
  [cls |-> "Option",
   name |-> name,
   short_form |-> short_form,
   long_form |-> IF long_form \in {None, <<>>}
                 THEN <<DASH, DASH>> \o ReplaceUnderscore(name)
                 ELSE long_form,
   default |-> default,
   required |-> required]

\* a slip in BoolOption.__init__: `required` is kept as passed
BoolOptionAsPassed(name, short_form, long_form, default, required) ==
  [Option(name, short_form, long_form, default, required)
     EXCEPT !.cls = "BoolOption", !.default = PyBool(FALSE)]

\* BoolOption.__init__: required and default are overwritten
BoolOption(name, short_form, long_form, default, required) ==
  [Option(name, short_form, long_form, default, required)
     EXCEPT !.cls = "BoolOption", !.required = FALSE, !.default = PyBool(FALSE)]

\* MultiOption.__init__ with default and required given as keywords
MultiOptionWith(name, short_form, long_form, default, required) ==
  [Option(name, short_form, long_form, default, required)
     EXCEPT !.cls = "MultiOption"]

\* MultiOption.__init__ with neither given: default [], required False
MultiOption(name, short_form, long_form) ==
  MultiOptionWith(name, short_form, long_form, PyList(<<>>), FALSE)

\* ForeignKeyOption.__init__
ForeignKeyOption(name, short_form, long_form, default, required) ==
  [Option(name, short_form, long_form, default, required)
     EXCEPT !.cls = "ForeignKeyOption"]

\* MultiForeignKeyOption.__init__ with neither default nor required given
MultiForeignKeyOption(name, short_form, long_form) ==
  [MultiOption(name, short_form, long_form)
     EXCEPT !.cls = "MultiForeignKeyOption"]

\* the classes that inherit MultiOption.parse_tokens and resolve_value
MultiClasses == {"MultiOption", "ListOption", "MultiForeignKeyOption"}

\* the keys of the entities the `query` of a foreign-key option holds
QueryKeys == {<<"1">>, <<"2">>}

\* query.get(**{key: value}) finds an entity
QueryHas(value) == value.t \in {"str", "int"} /\ value.v \in QueryKeys

\* the elements of value that query.filter(**{key__in: value}) keeps
RECURSIVE QueryFilter(_)
QueryFilter(l) ==
  IF l = <<>> THEN <<>>
  ELSE IF QueryHas(Head(l))
       THEN <<PyModel(Head(l).v)>> \o QueryFilter(Tail(l))
       ELSE QueryFilter(Tail(l))

\* a slip: query.get taken for a lookup that never raises
FilterNeverRaises(opt, value) == FALSE

\* opt.filter(value) raises (the DoesNotExist of query.get)
FilterRaises(opt, value) ==
  /\ opt.cls = "ForeignKeyOption"
  /\ value.t # "Model"
  /\ Truthy(value)
  /\ ~QueryHas(value)

\* opt.filter(value), when it returns
Filter(opt, value) ==
  CASE opt.cls = "ForeignKeyOption" ->
         IF value.t = "Model" THEN value
         ELSE IF Truthy(value) THEN PyModel(value.v)
         ELSE PyNone
    [] opt.cls = "MultiForeignKeyOption" ->
         IF value.t = "Model" THEN value
         ELSE IF Truthy(value) THEN PyList(QueryFilter(value.items))
         ELSE PyNone
    [] OTHER -> value

----------------------------------------------------------------------------
(* options.py: process_values *)

OptionNames(options) == {options[k].name : k \in DOMAIN options}
\* a slip: an option with a default is not taken as required
RequiredNamesWithoutDefault(options) ==
  {options[k].name :
     k \in {j \in DOMAIN options : options[j].required /\ options[j].default = PyNone}}

RequiredNames(options) ==
  {options[k].name : k \in {j \in DOMAIN options : options[j].required}}

\* the last option of the list with this name: a later pair of dict(...) wins
LastNamed(options, name) ==
  options[CHOOSE k \in DOMAIN options :
            /\ options[k].name = name
            /\ \A j \in DOMAIN options : options[j].name = name => j <= k]

\* a slip in Get: `values.get(opt.name) or opt.default`
GetOrDefault(values, opt) ==
  IF opt.name \in DOMAIN values /\ Truthy(values[opt.name])
  THEN values[opt.name] ELSE opt.default

\* values.get(opt.name, opt.default)
Get(values, opt) ==
  IF opt.name \in DOMAIN values THEN values[opt.name] ELSE opt.default

Raised(exc, msg, names) ==
  [exc |-> exc, msg |-> msg, names |-> names, returned |-> FALSE, ret |-> <<>>]
Returned(ret) ==
  [exc |-> "none", msg |-> "", names |-> {}, returned |-> TRUE, ret |-> ret]

\* a slip in process_values: the unknown keys are checked before the missing names
ProcessValuesUnknownFirst(values, options) ==
  LET missing == RequiredNames(options) \ DOMAIN values
      names == OptionNames(options)
      unknown == DOMAIN values \ names
  IN IF unknown # {}
     THEN Raised("OptionError", "Unknown arguments", unknown)
     ELSE IF missing # {}
     THEN Raised("OptionError", "Missing arguments", missing)
     ELSE IF \E k \in DOMAIN options : FilterRaises(options[k], Get(values, options[k]))
     THEN Raised("DoesNotExist", "", {})
     ELSE Returned([n \in names |->
                      Filter(LastNamed(options, n), Get(values, LastNamed(options, n)))])

\* a slip in process_values: the unknown keys are dropped without an error
ProcessValuesDropUnknown(values, options) ==
  LET missing == RequiredNames(options) \ DOMAIN values
      names == OptionNames(options)
  IN IF missing # {}
     THEN Raised("OptionError", "Missing arguments", missing)
     ELSE IF \E k \in DOMAIN options : FilterRaises(options[k], Get(values, options[k]))
     THEN Raised("DoesNotExist", "", {})
     ELSE Returned([n \in names |->
                      Filter(LastNamed(options, n), Get(values, LastNamed(options, n)))])

\* the result variable before process_values is called
NotCalled ==
  [exc |-> "notcalled", msg |-> "", names |-> {}, returned |-> FALSE, ret |-> <<>>]

\* dict()
EmptyDict == [k \in {} |-> PyNone]

\* process_values(values, options)
ProcessValues(values, options) ==
  LET required == RequiredNames(options)
      missing == required \ DOMAIN values
      names == OptionNames(options)
      unknown == DOMAIN values \ names
  IN IF missing # {}
     THEN Raised("OptionError", "Missing arguments", missing)
     ELSE IF unknown # {}
     THEN Raised("OptionError", "Unknown arguments", unknown)
     ELSE IF \E k \in DOMAIN options : FilterRaises(options[k], Get(values, options[k]))
     THEN Raised("DoesNotExist", "", {})
     ELSE Returned([n \in names |->
                      Filter(LastNamed(options, n), Get(values, LastNamed(options, n)))])

----------------------------------------------------------------------------
(* command_parser.py: parse_argument_list *)

\* a slip in _find_option: a token that is a prefix of a form matches
FindOptionByPrefix(option_list, arg) ==
  IF \E k \in DOMAIN option_list :
       StartsWith(option_list[k].short_form, arg) \/ StartsWith(option_list[k].long_form, arg)
  THEN CHOOSE k \in DOMAIN option_list :
         /\ StartsWith(option_list[k].short_form, arg) \/ StartsWith(option_list[k].long_form, arg)
         /\ \A j \in 1..(k - 1) :
              /\ ~StartsWith(option_list[j].short_form, arg)
              /\ ~StartsWith(option_list[j].long_form, arg)
  ELSE 0

\* _find_option: the index of the first option with this form, 0 for the raise
FindOption(option_list, arg) ==
  IF \E k \in DOMAIN option_list :
       option_list[k].short_form = arg \/ option_list[k].long_form = arg
  THEN CHOOSE k \in DOMAIN option_list :
         /\ option_list[k].short_form = arg \/ option_list[k].long_form = arg
         /\ \A j \in 1..(k - 1) :
              option_list[j].short_form # arg /\ option_list[j].long_form # arg
  ELSE 0

\* what an option's parse_tokens gives: the value and the lexer it leaves, or
\* the OptionParserError it raises
Parsed(value, lx) == [exc |-> "none", value |-> value, lexer |-> lx]
ParseRaised(lx) == [exc |-> "OptionParserError", value |-> PyNone, lexer |-> lx]

\* Option._get_var
GetVar(lx) ==
  IF TokenIsOption(lx) THEN ParseRaised(lx)
  ELSE Parsed(Variable(lx.token), Consume(lx))

\* a slip in MultiOption.parse_tokens: an `if` in the place of the `while`
MultiParseTokensOnce(lx, value) ==
  IF ~TokenIsOption(lx) /\ ~lx.exhausted
  THEN Parsed(PyList(Append(value, Variable(lx.token))), Consume(lx))
  ELSE Parsed(PyList(value), lx)

\* the loop of MultiOption.parse_tokens
RECURSIVE MultiParseTokens(_, _)
MultiParseTokens(lx, value) ==
  IF ~TokenIsOption(lx) /\ ~lx.exhausted
  THEN MultiParseTokens(GetVar(lx).lexer, Append(value, GetVar(lx).value))
  ELSE Parsed(PyList(value), lx)

\* opt.parse_tokens(lexer)
ParseTokens(opt, lx) ==
  CASE opt.cls = "BoolOption" -> Parsed(PyBool(TRUE), lx)
    [] opt.cls \in MultiClasses -> MultiParseTokens(lx, <<>>)
    [] OTHER -> GetVar(lx)

\* what parse_argument_list gives: the list of pairs, or the OptionParserError;
\* looked lists the tokens _find_option was asked for
ArgsParsed(values, looked) ==
  [exc |-> "none", msg |-> "", returned |-> TRUE, values |-> values,
   looked |-> looked]
ArgsRaised(msg, looked) ==
  [exc |-> "OptionParserError", msg |-> msg, returned |-> FALSE, values |-> <<>>,
   looked |-> looked]

\* a slip in the loop: an unknown argument ends it and the pairs parsed so far
\* are returned
RECURSIVE ParseLoopStopsAtUnknown(_, _, _, _)
ParseLoopStopsAtUnknown(option_list, lx, values, looked) ==
  IF lx.exhausted THEN ArgsParsed(values, looked)
  ELSE LET k == FindOption(option_list, lx.token)
           seen == Append(looked, lx.token)
       IN IF k = 0 THEN ArgsParsed(values, seen)
          ELSE LET r == ParseTokens(option_list[k], Consume(lx))
               IN IF r.exc # "none" THEN ArgsRaised("Unexpected option", seen)
                  ELSE ParseLoopStopsAtUnknown(option_list, r.lexer,
                                 Append(values, [opt |-> option_list[k],
                                                 value |-> r.value]),
                                 seen)

\* the while loop of parse_argument_list
RECURSIVE ParseLoop(_, _, _, _)
ParseLoop(option_list, lx, values, looked) ==
  IF lx.exhausted THEN ArgsParsed(values, looked)
  ELSE LET k == FindOption(option_list, lx.token)
           seen == Append(looked, lx.token)
       IN IF k = 0 THEN ArgsRaised("Unknown argument", seen)
          ELSE LET r == ParseTokens(option_list[k], Consume(lx))
               IN IF r.exc # "none" THEN ArgsRaised("Unexpected option", seen)
                  ELSE ParseLoop(option_list, r.lexer,
                                 Append(values, [opt |-> option_list[k],
                                                 value |-> r.value]),
                                 seen)

\* parse_argument_list(option_list, arguments)
ParseArgumentList(option_list, arguments) ==
  ParseLoop(option_list, Consume(OptionLexer(arguments)), <<>>, <<>>)

----------------------------------------------------------------------------
(* django.template.Variable, as Option._get_var and resolve_value use it *)

Digits == {"0", "1", "2", "3", "4", "5", "6", "7", "8", "9"}

\* float(var) succeeds: the variable is a number
IsNumber(var) == var # <<>> /\ \A k \in DOMAIN var : var[k] \in Digits

\* the variable is wrapped in quotes: a string literal
IsLiteral(var) ==
  /\ var # <<>>
  /\ var[1] \in {DQ, SQ}
  /\ var[Len(var)] = var[1]

\* Variable(var).resolve(context) raises VariableDoesNotExist
ResolveRaises(context, value) ==
  /\ ~IsNumber(value.v)
  /\ ~IsLiteral(value.v)
  /\ value.v \notin DOMAIN context

\* a slip in Variable: the content of a literal is looked up when the context
\* binds it
ResolveLiteralInContext(context, value) ==
  IF IsNumber(value.v) THEN PyInt(value.v)
  ELSE IF IsLiteral(value.v)
       THEN IF SubSeq(value.v, 2, Len(value.v) - 1) \in DOMAIN context
            THEN context[SubSeq(value.v, 2, Len(value.v) - 1)]
            ELSE PyStr(SubSeq(value.v, 2, Len(value.v) - 1))
  ELSE context[value.v]

\* Variable(var).resolve(context), when it returns
Resolve(context, value) ==
  IF IsNumber(value.v) THEN PyInt(value.v)
  ELSE IF IsLiteral(value.v) THEN PyStr(SubSeq(value.v, 2, Len(value.v) - 1))
  ELSE context[value.v]

\* opt.resolve_value(context, value) raises
ResolveValueRaises(opt, context, value) ==
  CASE opt.cls = "BoolOption" -> FALSE
    [] opt.cls \in MultiClasses ->
         \E k \in DOMAIN value.items : ResolveRaises(context, value.items[k])
    [] OTHER -> ResolveRaises(context, value)

\* opt.resolve_value(context, value), when it returns
ResolveValue(opt, context, value) ==
  CASE opt.cls = "BoolOption" -> value
    [] opt.cls \in MultiClasses ->
         PyList([k \in DOMAIN value.items |-> Resolve(context, value.items[k])])
    [] OTHER -> Resolve(context, value)

----------------------------------------------------------------------------
(* templatetags/widget_tags.py: WidgetRenderNode *)

\* WidgetRenderNode.__init__: self.values
WidgetRenderNode(options, arguments) ==
  ParseArgumentList(options, ListArgs(arguments))

\* a slip: the first pair with this option name is kept
FirstPair(values, name) ==
  values[CHOOSE k \in DOMAIN values :
           /\ values[k].opt.name = name
           /\ \A j \in DOMAIN values : values[j].opt.name = name => j >= k]

\* the last pair of self.values with this option name: dict(...) keeps it
LastPair(values, name) ==
  values[CHOOSE k \in DOMAIN values :
           /\ values[k].opt.name = name
           /\ \A j \in DOMAIN values : values[j].opt.name = name => j <= k]

\* a slip: the resolved dict is keyed by the option's long form
ResolvedByLongForm(values, context) ==
  [form \in {values[k].opt.long_form : k \in DOMAIN values} |->
     LET pair == values[CHOOSE k \in DOMAIN values : values[k].opt.long_form = form]
     IN ResolveValue(pair.opt, context, pair.value)]

\* resolved = dict((opt.name, opt.resolve_value(context, value)) ...)
Resolved(values, context) ==
  [name \in {values[k].opt.name : k \in DOMAIN values} |->
     ResolveValue(LastPair(values, name).opt, context, LastPair(values, name).value)]

\* the outcome of a render: what it raised, the resolved dict (raw_options) and
\* the processed options handed to the widget
RenderOutcome(exc, context, resolved, pv) ==
  [exc |-> exc, context |-> context, resolved |-> resolved, pv |-> pv]

\* WidgetRenderNode.render(context)
Render(values, options, context) ==
  IF \E k \in DOMAIN values :
       ResolveValueRaises(values[k].opt, context, values[k].value)
  THEN RenderOutcome("VariableDoesNotExist", context, EmptyDict, NotCalled)
  ELSE LET resolved == Resolved(values, context)
           pv == ProcessValues(resolved, options)
       IN RenderOutcome(pv.exc, context, resolved, pv)

----------------------------------------------------------------------------
(* The options the widgets of the model declare *)

N_tes == <<"t", "e", "s">>
N_d == <<"d">>
N_b == <<"b">>
N_mv == <<"m", "_", "v">>
N_fk == <<"f", "k">>
N_bog == <<"b", "o", "g">>
N_mfk == <<"m", "f", "k">>

\* Option('tes', '-t', default="xxx"): required, as TestWidget2's option
O_tes == Option(N_tes, <<DASH, "t">>, None, PyStr(<<"x", "x", "x">>), TRUE)
\* Option('d', '-a', default="dd", required=False)
O_d == Option(N_d, <<DASH, "a">>, None, PyStr(<<"d", "d">>), FALSE)
\* BoolOption('b', '-b', required=True)
O_b == BoolOption(N_b, <<DASH, "b">>, None, PyNone, TRUE)
\* MultiOption(choices, 'm_v', '-m')
O_mv == MultiOption(N_mv, <<DASH, "m">>, None)
\* ForeignKeyOption('fk', required=False, query=...): no short form
O_fk == ForeignKeyOption(N_fk, None, None, PyNone, FALSE)
\* MultiForeignKeyOption('mfk', query=...): no short form
O_mfk == MultiForeignKeyOption(N_mfk, None, None)

----------------------------------------------------------------------------
(* A direct call of process_values, as views.widget_download_response makes *)

PvOptionLists ==
  {<<>>, <<O_tes>>, <<O_d>>, <<O_tes, O_d>>, <<O_d, O_tes, O_b>>,
   <<O_b, O_mv>>, <<O_fk>>, <<O_tes, O_fk, O_mv>>, <<O_tes, O_d, O_b, O_mv, O_fk>>,
   <<O_mfk>>, <<O_fk, O_mfk>>}

PvKeys == {N_tes, N_d, N_b, N_mv, N_fk, N_bog, N_mfk}

\* the values a mapping may hold under a key
PvCandidates(key) ==
  CASE key = N_tes -> {PyStr(<<"x">>), PyStr(<<>>)}
    [] key = N_d -> {PyStr(<<"x">>)}
    [] key = N_b -> {PyBool(TRUE)}
    [] key = N_mv -> {PyList(<<PyStr(<<"x">>)>>), PyList(<<>>)}
    [] key = N_fk -> {PyStr(<<"1">>), PyStr(<<"9">>), PyModel(<<"2">>), PyStr(<<>>)}
    [] key = N_mfk -> {PyList(<<PyStr(<<"1">>)>>), PyList(<<PyStr(<<"9">>)>>),
                       PyList(<<PyStr(<<"9">>), PyStr(<<"2">>)>>), PyList(<<>>)}
    [] OTHER -> {PyStr(<<"y">>)}

\* every dict whose keys are among `keys`
RECURSIVE DictsOver(_)
DictsOver(keys) ==
  IF keys = {} THEN {EmptyDict}
  ELSE LET key == CHOOSE k \in keys : TRUE
           rest == DictsOver(keys \ {key})
       IN rest \cup {(key :> c) @@ m : c \in PvCandidates(key), m \in rest}

PvInit ==
  /\ pvOptions \in PvOptionLists
  /\ pvValues \in DictsOver(PvKeys)
  /\ pvResult = NotCalled

\* values = process_values(values, widget_class.options)
PvCall ==
  /\ pvResult = NotCalled
  /\ pvResult' = ProcessValues(pvValues, pvOptions)
  /\ UNCHANGED <<pvOptions, pvValues>>
  /\ UNCHANGED <<lexVars, tagVars, tplVars, palVars, regVars>>

----------------------------------------------------------------------------
(* A {% widget class arguments... %} tag: compiled once, rendered many times *)

\* the option lists of the widget classes: TestWidget1 (none), TestWidget2,
\* and a class with every kind of option
TagWidgets == {<<>>, <<O_tes>>, <<O_b, O_mv, O_tes, O_d>>}

\* the tokens token.split_contents() hands over
TagTokens ==
  {<<DASH, "t">>, <<DASH, DASH, "t", "e", "s">>, <<DASH, DASH, "t", "e">>,
   <<DASH, "a">>, <<DASH, "b">>, <<DASH, "m">>, <<DASH, "b", "t">>,
   <<DQ, "x", DQ>>, <<"x">>, <<"7">>}

\* the template contexts a node is rendered against
TagContexts ==
  {EmptyDict,
   (<<"x">> :> PyStr(<<"a", "b", "c">>)) @@ (<<"7">> :> PyStr(<<"z">>)),
   (<<"x">> :> PyStr(<<"x">>))}

NotCompiled ==
  [exc |-> "notcompiled", msg |-> "", returned |-> FALSE, values |-> <<>>,
   looked |-> <<>>]

NotRendered == RenderOutcome("notrendered", EmptyDict, EmptyDict, NotCalled)

TagIdle ==
  /\ tagOptions = <<>>
  /\ tagArgs = <<>>
  /\ node = NotCompiled
  /\ rendered = NotRendered

TagInit ==
  /\ tagOptions \in TagWidgets
  /\ tagArgs \in ListsUpTo(TagTokens, MaxArgs)
  /\ node = NotCompiled
  /\ rendered = NotRendered

\* widget_render_tag: return WidgetRenderNode(args[1], args[2:], as_name)
TagCompile ==
  /\ node = NotCompiled
  /\ node' = WidgetRenderNode(tagOptions, tagArgs)
  /\ UNCHANGED <<tagOptions, tagArgs, rendered>>
  /\ UNCHANGED <<lexVars, pvVars, tplVars, palVars, regVars>>

\* WidgetRenderNode.render(context), of a node whose construction did not raise
TagRender ==
  /\ node.exc = "none"
  /\ \E context \in TagContexts :
       rendered' = Render(node.values, tagOptions, context)
  /\ UNCHANGED <<tagOptions, tagArgs, node>>
  /\ UNCHANGED <<lexVars, pvVars, tplVars, palVars, regVars>>

----------------------------------------------------------------------------
(* parse_argument_list, one statement at a time *)

\* Option('w', 'w', required=False): a short form without a hyphen
O_w == Option(<<"w">>, <<"w">>, None, PyNone, FALSE)

\* the option lists of the calls followed step by step
PalWidgets == {<<O_tes, O_b, O_mv, O_w>>, <<O_mv, O_tes>>}

\* the tokens of their arguments
PalTokens ==
  {<<DASH, "t">>, <<DASH, "b">>, <<DASH, "m">>, <<DASH, DASH, "u">>,
   <<"w">>, <<"x">>}

PalIdle ==
  /\ palOptions = <<>>
  /\ palArgs = <<>>
  /\ palLexer = NoLexer
  /\ palOpt = 0
  /\ palValues = <<>>
  /\ palPc = "idle"

PalInit ==
  /\ palOptions \in PalWidgets
  /\ palArgs \in ListsUpTo(PalTokens, MaxArgs)
  /\ palLexer = NoLexer
  /\ palOpt = 0
  /\ palValues = <<>>
  /\ palPc = "start"

\* values = []; lexer = OptionLexer(arguments); lexer.consume()
PalStart ==
  /\ palPc = "start"
  /\ palLexer' = Consume(OptionLexer(ListArgs(palArgs)))
  /\ palPc' = "find"
  /\ UNCHANGED <<palOptions, palArgs, palOpt, palValues>>
  /\ UNCHANGED <<lexVars, pvVars, tagVars, tplVars, regVars>>

\* a slip in the loop: the consume after _find_option is left out
PalFindKeepsToken ==
  /\ palPc = "find"
  /\ ~palLexer.exhausted
  /\ LET k == FindOption(palOptions, palLexer.token)
     IN IF k = 0
        THEN /\ palPc' = "raised"
             /\ UNCHANGED palOpt
        ELSE /\ palOpt' = k
             /\ palPc' = "parse"
  /\ UNCHANGED <<palOptions, palArgs, palValues, palLexer>>
  /\ UNCHANGED <<lexVars, pvVars, tagVars, tplVars, regVars>>

\* while not lexer.exhausted: opt = _find_option(...); lexer.consume()
PalFind ==
  /\ palPc = "find"
  /\ ~palLexer.exhausted
  /\ LET k == FindOption(palOptions, palLexer.token)
     IN IF k = 0
        THEN /\ palPc' = "raised"
             /\ UNCHANGED <<palLexer, palOpt>>
        ELSE /\ palOpt' = k
             /\ palLexer' = Consume(palLexer)
             /\ palPc' = "parse"
  /\ UNCHANGED <<palOptions, palArgs, palValues>>
  /\ UNCHANGED <<lexVars, pvVars, tagVars, tplVars, regVars>>

\* values.append((opt, opt.parse_tokens(lexer)))
PalParse ==
  /\ palPc = "parse"
  /\ LET r == ParseTokens(palOptions[palOpt], palLexer)
     IN /\ palLexer' = r.lexer
        /\ IF r.exc # "none"
           THEN /\ palPc' = "raised"
                /\ UNCHANGED palValues
           ELSE /\ palPc' = "find"
                /\ palValues' = Append(palValues, [opt |-> palOptions[palOpt],
                                                   value |-> r.value])
  /\ UNCHANGED <<palOptions, palArgs, palOpt>>
  /\ UNCHANGED <<lexVars, pvVars, tagVars, tplVars, regVars>>

\* the loop ends: return values
PalReturn ==
  /\ palPc = "find"
  /\ palLexer.exhausted
  /\ palPc' = "returned"
  /\ UNCHANGED <<palOptions, palArgs, palLexer, palOpt, palValues>>
  /\ UNCHANGED <<lexVars, pvVars, tagVars, tplVars, regVars>>

----------------------------------------------------------------------------
(* django.forms.Media, as base.py and template.py use it *)

\* Media(): _css holds the 'all' medium only
EmptyMedia == [css |-> <<>>, js |-> <<>>]

InSeq(x, s) == \E k \in DOMAIN s : s[k] = x

\* a slip in the loop: every path is appended, present or not
AddPathsUnchecked(list, paths) == list \o paths

\* the loop of add_js, and of add_css for one medium: a path already in the
\* list is skipped
RECURSIVE AddPaths(_, _)
AddPaths(list, paths) ==
  IF paths = <<>> THEN list
  ELSE IF InSeq(Head(paths), list) THEN AddPaths(list, Tail(paths))
  ELSE AddPaths(Append(list, Head(paths)), Tail(paths))

\* media.add_css(data)
AddCss(media, data) == [media EXCEPT !.css = AddPaths(media.css, data)]

\* media.add_js(data)
AddJs(media, data) == [media EXCEPT !.js = AddPaths(media.js, data)]

\* Media(css={'all': css}, js=js)
Media(css, js) == AddJs(AddCss(EmptyMedia, css), js)

----------------------------------------------------------------------------
(* base.py: the widget classes of the model and their media *)

\* css_media of a widget class
CssMedia(cls) ==
  CASE cls = "TestWidget3" -> <<"css1", "css2", "css3">>
    [] cls = "Overlap" -> <<"css2", "css4">>
    [] cls = "Other" -> <<"css5">>
    [] OTHER -> <<>>

\* js_media of a widget class
JsMedia(cls) ==
  CASE cls = "TestWidget3" -> <<"js1", "js2", "js3">>
    [] cls = "Overlap" -> <<"js3", "js1">>
    [] cls = "Other" -> <<"js5", "js5">>
    [] OTHER -> <<>>

\* WidgetBase.media
WidgetMedia(cls) == Media(CssMedia(cls), JsMedia(cls))

----------------------------------------------------------------------------
(* Compiled templates: nodes and node lists *)

TemplateNode(type, id, ref, cls, nodelist) ==
  [type |-> type, id |-> id, ref |-> ref, cls |-> cls, nodelist |-> nodelist]

\* a WidgetRenderNode of class cls; id tells the nodes apart (their as_name)
WidgetNode(id, cls) == TemplateNode("WidgetRenderNode", id, "", cls, <<>>)
TextNode == TemplateNode("TextNode", "", "", "", <<>>)
BlockNode(name, nodelist) == TemplateNode("BlockNode", name, "", "", nodelist)
\* parent_name is "" (Python's None) when the parent is named dynamically
ExtendsNode(parent_name, nodelist) ==
  TemplateNode("ExtendsNode", "", parent_name, "", nodelist)
\* inc.template is the template loaded when the tag was compiled
ConstantIncludeNode(template) ==
  TemplateNode("ConstantIncludeNode", "", template, "", <<>>)
\* {% extends variable %}: parent_name is "" (None); id keeps the template the
\* variable names when the page is rendered, which compilation does not know
DynamicExtendsNode(resolves, nodelist) ==
  TemplateNode("ExtendsNode", resolves, "", "", nodelist)
\* {% include variable %}: id keeps the template the variable names when the
\* page is rendered
IncludeNode == TemplateNode("IncludeNode", "I", "", "", <<>>)

\* NodeList.get_nodes_by_type: the node, then the nodes of its nodelist
RECURSIVE GetNodesByType(_, _)
GetNodesByType(nodelist, type) ==
  IF nodelist = <<>> THEN <<>>
  ELSE (IF Head(nodelist).type = type THEN <<Head(nodelist)>> ELSE <<>>)
       \o GetNodesByType(Head(nodelist).nodelist, type)
       \o GetNodesByType(Tail(nodelist), type)

----------------------------------------------------------------------------
(* template.py: _find_widget_nodes and WidgetTemplateWrapper *)

Found(widgets) == [ok |-> TRUE, widgets |-> widgets]
\* RuntimeError: maximum recursion depth exceeded
TooDeep == [ok |-> FALSE, widgets |-> <<>>]

RECURSIVE FindWidgetNodes(_, _)
RECURSIVE ExtendFrom(_, _, _)

\* widgets.extend(_find_widget_nodes(...)) for each template of `names` in turn
ExtendFrom(found, names, depth) ==
  IF ~found.ok \/ names = <<>> THEN found
  ELSE LET r == FindWidgetNodes(templates[Head(names)], depth + 1)
       IN IF ~r.ok THEN TooDeep
          ELSE ExtendFrom(Found(found.widgets \o r.widgets), Tail(names), depth)

\* the names of the templates a list of extends or include nodes refers to
Refs(nodes) == [k \in DOMAIN nodes |-> nodes[k].ref]

\* the 'extends' nodes with a static parent: `if ext.parent_name`
IsStatic(ext) == ext.ref # ""

\* a slip in _find_widget_nodes: the parent's own nodes are taken, its parents
\* and includes are not followed
FindWidgetNodesParentOnly(nodelist, depth) ==
  IF depth > MaxRecursion THEN TooDeep
  ELSE LET widgets == GetNodesByType(nodelist, "WidgetRenderNode")
           exts == SelectSeq(GetNodesByType(nodelist, "ExtendsNode"), IsStatic)
           incs == GetNodesByType(nodelist, "ConstantIncludeNode")
           Own(name) == GetNodesByType(templates[name], "WidgetRenderNode")
           OwnOfAll[k \in 0..Len(exts)] ==
             IF k = 0 THEN <<>> ELSE OwnOfAll[k - 1] \o Own(exts[k].ref)
       IN ExtendFrom(Found(widgets \o OwnOfAll[Len(exts)]), Refs(incs), depth)

\* a slip in _find_widget_nodes: the includes of a parent template are not
\* followed, only those of the template the walk started from
FindWidgetNodesTopIncludes(nodelist, depth) ==
  IF depth > MaxRecursion THEN TooDeep
  ELSE LET widgets == GetNodesByType(nodelist, "WidgetRenderNode")
           exts == SelectSeq(GetNodesByType(nodelist, "ExtendsNode"), IsStatic)
           incs == IF depth > 1 THEN <<>>
                   ELSE GetNodesByType(nodelist, "ConstantIncludeNode")
       IN ExtendFrom(ExtendFrom(Found(widgets), Refs(exts), depth),
                     Refs(incs), depth)

\* a slip in _find_widget_nodes: a parent named dynamically is followed too
FindWidgetNodesAnyParent(nodelist, depth) ==
  IF depth > MaxRecursion THEN TooDeep
  ELSE LET widgets == GetNodesByType(nodelist, "WidgetRenderNode")
           exts == GetNodesByType(nodelist, "ExtendsNode")
           parents == [k \in DOMAIN exts |->
                         IF IsStatic(exts[k]) THEN exts[k].ref ELSE exts[k].id]
           incs == GetNodesByType(nodelist, "ConstantIncludeNode")
       IN ExtendFrom(ExtendFrom(Found(widgets), parents, depth),
                     Refs(incs), depth)

\* a slip in _find_widget_nodes: the walk is cut off silently at the depth
\* limit, as a guard against revisiting would cut a cycle
FindWidgetNodesCutOff(nodelist, depth) ==
  IF depth > MaxRecursion THEN Found(<<>>)
  ELSE LET widgets == GetNodesByType(nodelist, "WidgetRenderNode")
           exts == SelectSeq(GetNodesByType(nodelist, "ExtendsNode"), IsStatic)
           incs == GetNodesByType(nodelist, "ConstantIncludeNode")
       IN ExtendFrom(ExtendFrom(Found(widgets), Refs(exts), depth),
                     Refs(incs), depth)

\* _find_widget_nodes(nodelist), called at nesting `depth`
FindWidgetNodes(nodelist, depth) ==
  IF depth > MaxRecursion THEN TooDeep
  ELSE LET widgets == GetNodesByType(nodelist, "WidgetRenderNode")
           exts == SelectSeq(GetNodesByType(nodelist, "ExtendsNode"), IsStatic)
           incs == GetNodesByType(nodelist, "ConstantIncludeNode")
       IN ExtendFrom(ExtendFrom(Found(widgets), Refs(exts), depth),
                     Refs(incs), depth)

\* the loop over self.widget_nodes that fills self.media
RECURSIVE AddNodesMedia(_, _)
AddNodesMedia(media, nodes) ==
  IF nodes = <<>> THEN media
  ELSE AddNodesMedia(AddJs(AddCss(media, WidgetMedia(Head(nodes).cls).css),
                           WidgetMedia(Head(nodes).cls).js),
                     Tail(nodes))

NoMedia == [css |-> <<"None">>, js |-> <<"None">>]

NoWrapper ==
  [exc |-> "nowrapper", template |-> "", widget_nodes |-> <<>>,
   media |-> NoMedia, shared |-> FALSE, given |-> NoMedia,
   variable_includes |-> <<>>]

\* a slip in __init__: the loop over variable_includes_ is left out
WidgetTemplateWrapperPageOnly(template, variable_includes, media) ==
  LET found == FindWidgetNodes(templates[template], 1)
  IN IF ~found.ok
     THEN [NoWrapper EXCEPT !.exc = "RuntimeError", !.template = template,
                            !.given = media,
                            !.variable_includes = variable_includes]
     ELSE [exc |-> "none",
           template |-> template,
           widget_nodes |-> found.widgets,
           media |-> AddNodesMedia(IF media = NoMedia THEN EmptyMedia ELSE media,
                                   found.widgets),
           shared |-> media # NoMedia,
           given |-> media,
           variable_includes |-> variable_includes]

\* WidgetTemplateWrapper.__init__(template, variable_includes, media):
\* `given` is what the media argument held when passed (NoMedia for None),
\* `shared` whether self.media is the caller's object, `variable_includes` the
\* templates passed as such
WidgetTemplateWrapper(template, variable_includes, media) ==
  LET found == ExtendFrom(FindWidgetNodes(templates[template], 1),
                          variable_includes, 0)
  IN IF ~found.ok
     THEN [NoWrapper EXCEPT !.exc = "RuntimeError", !.template = template,
                            !.given = media,
                            !.variable_includes = variable_includes]
     ELSE [exc |-> "none",
           template |-> template,
           widget_nodes |-> found.widgets,
           media |-> AddNodesMedia(IF media = NoMedia THEN EmptyMedia ELSE media,
                                   found.widgets),
           shared |-> media # NoMedia,
           given |-> media,
           variable_includes |-> variable_includes]

----------------------------------------------------------------------------
(* The templates of the model: pages A and B and the base template C, as the *)
(* extender templates of tests.py; fragments I and J to include              *)

\* the body of a page: two blocks with one widget each, a constant include
\* in the first block when inc names a template, a variable include
PageBody(b1, w1, c1, b2, w2, c2, inc) ==
  <<TextNode,
    BlockNode(b1, <<WidgetNode(w1, c1)>>
                  \o (IF inc = "" THEN <<>> ELSE <<ConstantIncludeNode(inc)>>)),
    BlockNode(b2, <<WidgetNode(w2, c2), IncludeNode>>)>>

\* the body of a fragment: one widget, and a constant include when inc names one
FragmentBody(w, c, inc) ==
  <<WidgetNode(w, c)>> \o (IF inc = "" THEN <<>> ELSE <<ConstantIncludeNode(inc)>>)

\* a template's nodelist: its body, under an ExtendsNode when it has a parent;
\* a parent named dynamically turns out to be B when the page is rendered
Compile(parent, body) ==
  IF parent = "none" THEN body
  ELSE IF parent = "dynamic" THEN <<DynamicExtendsNode("B", body)>>
  ELSE <<ExtendsNode(parent, body)>>

PageNames == {"A", "B"}
TemplateNames == {"A", "B", "C", "I", "J"}

\* the templates of one site: who extends whom and who includes whom varies
Site(pA, iA, pB, iB, pC, iC, pI, iI) ==
  [name \in TemplateNames |->
     CASE name = "A" -> Compile(pA, PageBody("a", "ablockA", "TestWidget3",
                                             "c", "cblockA", "TestWidget3", iA))
       [] name = "B" -> Compile(pB, PageBody("a", "ablockB", "Overlap",
                                             "b", "bblockB", "WidgetBase", iB))
       [] name = "C" -> Compile(pC, PageBody("a", "ablockC", "TestWidget3",
                                             "c", "cblockC", "Other", iC))
       [] name = "I" -> Compile(pI, FragmentBody("wI", "Overlap", iI))
       [] OTHER -> FragmentBody("wJ", "Other", "")]

Sites ==
  {Site(pA, iA, pB, "", "none", iC, pI, iI) :
     pA \in {"none", "B", "dynamic", "A"}, iA \in {"", "I"},
     pB \in {"none", "C"}, iC \in {"", "I"},
     pI \in {"none", "C"}, iI \in {"", "J"}}

\* the variable_templates a view may pass
VariableIncludes == {<<>>, <<"I">>}

\* a Media object the host filled before passing it
SiteMedia == Media(<<"site.css">>, <<"js1">>)

TplIdle ==
  /\ templates = <<>>
  /\ hostMedia = NoMedia
  /\ wrapper = NoWrapper

TplInit ==
  /\ templates \in Sites
  /\ hostMedia \in {EmptyMedia, SiteMedia}
  /\ wrapper = NoWrapper

\* render_to_response(template_path, variable_templates=..., media=None):
\* WidgetTemplateWrapper makes its own Media()
WrapFresh ==
  /\ \E page \in PageNames, variable_includes \in VariableIncludes :
       wrapper' = WidgetTemplateWrapper(page, variable_includes, NoMedia)
  /\ UNCHANGED <<templates, hostMedia>>
  /\ UNCHANGED <<lexVars, pvVars, tagVars, palVars, regVars>>

\* render_to_response(..., media=media) with the object the host keeps, as the
\* wrapper of render_to(template, media) does on every request: the wrapper
\* adds to that very object
WrapShared ==
  /\ hostMedia # NoMedia
  /\ \E page \in PageNames, variable_includes \in VariableIncludes :
       /\ wrapper' = WidgetTemplateWrapper(page, variable_includes, hostMedia)
       /\ hostMedia' = IF wrapper'.exc = "none" THEN wrapper'.media ELSE hostMedia
  /\ UNCHANGED templates
  /\ UNCHANGED <<lexVars, pvVars, tagVars, palVars, regVars>>

----------------------------------------------------------------------------
(* registry.py: Registry, the global registry and autodiscover *)

\* A qualified class name is kept whole (the registry never takes it apart);
\* the class object an import yields for it
ClassOf(name) == <<"class", name>>

\* self._register.setdefault(name, obj) for the classes of the modules
\* imported so far, in order
RECURSIVE AddClasses(_, _)
AddClasses(reg, names) ==
  IF names = <<>> THEN reg
  ELSE AddClasses(IF Head(names) \in DOMAIN reg THEN reg
                  ELSE (Head(names) :> ClassOf(Head(names))) @@ reg,
                  Tail(names))

\* What autodiscover meets in one unit: whether import_module of the app (or
\* of the main package) works, the classes _add_classes registers before
\* register returns or raises, whether it raises, and what
\* module_has_submodule(mod, widget_noun) says
Unit(name, importable, adds, raises, has_submodule) ==
  [name |-> name, importable |-> importable, adds |-> adds,
   raises |-> raises, has_submodule |-> has_submodule]

\* the apps a site may install: two with widgets, one without a widgets
\* module, one whose widgets package breaks in its second module, one inside
\* a package where looking for widgets fails, one that cannot be imported
Apps ==
  {Unit("a", TRUE, <<"a.widgets.W1", "a.widgets.W2">>, FALSE, TRUE),
   Unit("b", TRUE, <<"b.widgets.W">>, FALSE, TRUE),
   Unit("c", TRUE, <<>>, FALSE, FALSE),
   Unit("d", TRUE, <<"d.widgets.m1.W">>, TRUE, TRUE),
   Unit("e.sub", TRUE, <<>>, TRUE, FALSE),
   Unit("f", FALSE, <<>>, FALSE, FALSE)}

\* the top-level package named widget_noun: the widgets package itself, none
\* of that name, or one with a module that breaks
MainPackages ==
  {Unit("widgets", TRUE, <<"widgets.base.WidgetBase">>, FALSE, TRUE),
   Unit("gadgets", FALSE, <<>>, FALSE, FALSE),
   Unit("gizmos", TRUE, <<"gizmos.m1.W">>, TRUE, TRUE)}

\* the lists of at most n different apps
RECURSIVE AppLists(_)
AppLists(n) ==
  IF n = 0 THEN {<<>>}
  ELSE LET shorter == AppLists(n - 1)
       IN shorter \cup
          UNION {{Append(s, app) : app \in Apps \ {s[k] : k \in DOMAIN s}} :
                   s \in shorter}

\* the request threads that compile templates
Threads == {"t1", "t2"}

\* the classnames a {% widget %} tag may hold: one an app registers, one that
\* only an import finds, one that names no widget class
FindNames == {"a.widgets.W1", "lib.widgets.Lazy", "lib.widgets.Nope"}

\* the names get_widget_class returns a class for
ImportableNames ==
  {"a.widgets.W1", "a.widgets.W2", "b.widgets.W", "widgets.base.WidgetBase",
   "lib.widgets.Lazy"}

NoResult == <<"none", "">>
\* the ImportError or AssertionError of get_widget_class
FindRaised == <<"raised", "AssertionError">>

Unbound == [bound |-> FALSE, value |-> EmptyDict]
\* copy.copy(registry._register)
Bound(reg) == [bound |-> TRUE, value |-> reg]

RegIdle ==
  /\ installed = <<>>
  /\ mainPackage = Unit("", FALSE, <<>>, FALSE, FALSE)
  /\ register = EmptyDict
  /\ before_import_register = Unbound
  /\ adApp = 0
  /\ adPc = "idle"
  /\ findPc = [t \in Threads |-> "idle"]
  /\ findName = [t \in Threads |-> ""]
  /\ findResult = [t \in Threads |-> NoResult]

\* registry = Registry(), and autodiscover(widget_noun) about to start
RegInit ==
  /\ installed \in AppLists(MaxApps)
  /\ mainPackage \in MainPackages
  /\ register = EmptyDict
  /\ before_import_register = Unbound
  /\ adApp = 1
  /\ adPc = "apps"
  /\ findPc = [t \in Threads |-> "idle"]
  /\ findName = [t \in Threads |-> ""]
  /\ findResult = [t \in Threads |-> NoResult]

\* one turn of `for app in settings.INSTALLED_APPS`
AutodiscoverApp ==
  /\ adPc = "apps"
  /\ adApp <= Len(installed)
  /\ LET app == installed[adApp]
     IN IF ~app.importable
        THEN \* mod = import_module(app) raises, outside the try
             /\ adPc' = "raised"
             /\ UNCHANGED <<register, before_import_register, adApp>>
        ELSE /\ before_import_register' = Bound(register)
             /\ IF ~app.raises
                THEN /\ register' = AddClasses(register, app.adds)
                     /\ adApp' = adApp + 1
                     /\ UNCHANGED adPc
                ELSE \* registry._register = before_import_register
                     /\ register' = before_import_register'.value
                     /\ IF app.has_submodule
                        THEN /\ adPc' = "raised"
                             /\ UNCHANGED adApp
                        ELSE /\ adApp' = adApp + 1
                             /\ UNCHANGED adPc
  /\ UNCHANGED <<installed, mainPackage, findPc, findName, findResult>>
  /\ UNCHANGED <<lexVars, pvVars, tagVars, tplVars, palVars>>

\* the try block after the loop: the main package
AutodiscoverMain ==
  /\ adPc = "apps"
  /\ adApp > Len(installed)
  /\ IF ~mainPackage.importable
     THEN \* import_module(widget_noun) raises before the copy is taken: the
          \* handler assigns what the local holds from the loop, and fails
          \* with UnboundLocalError when the loop never bound it
          /\ IF before_import_register.bound
             THEN /\ register' = before_import_register.value
                  /\ adPc' = "done"
             ELSE /\ adPc' = "raised"
                  /\ UNCHANGED register
          /\ UNCHANGED before_import_register
     ELSE /\ before_import_register' = Bound(register)
          /\ register' = IF mainPackage.raises
                         THEN before_import_register'.value
                         ELSE AddClasses(register, mainPackage.adds)
          /\ adPc' = "done"
  /\ UNCHANGED <<installed, mainPackage, adApp, findPc, findName, findResult>>
  /\ UNCHANGED <<lexVars, pvVars, tagVars, tplVars, palVars>>

\* registry.find(classname) up to its branch: a registered class is returned,
\* for any other name register_by_qualified_name is entered
FindCall(t) ==
  /\ adPc = "done"
  /\ findPc[t] = "idle"
  /\ \E classname \in FindNames :
       /\ findName' = [findName EXCEPT ![t] = classname]
       /\ IF classname \in DOMAIN register
          THEN /\ findResult' = [findResult EXCEPT ![t] = register[classname]]
               /\ UNCHANGED findPc
          ELSE /\ findResult' = [findResult EXCEPT ![t] = NoResult]
               /\ findPc' = [findPc EXCEPT ![t] = "register"]
  /\ UNCHANGED <<installed, mainPackage, register, before_import_register,
                 adApp, adPc>>
  /\ UNCHANGED <<lexVars, pvVars, tagVars, tplVars, palVars>>

\* a slip in register_by_qualified_name: the register is made anew around the
\* class just loaded
FindRegisterAnew(t) ==
  /\ findPc[t] = "register"
  /\ LET name == findName[t]
     IN IF name \in DOMAIN register
        THEN /\ findResult' = [findResult EXCEPT ![t] = register[name]]
             /\ UNCHANGED register
        ELSE IF name \in ImportableNames
        THEN /\ register' = (name :> ClassOf(name))
             /\ findResult' = [findResult EXCEPT ![t] = ClassOf(name)]
        ELSE /\ findResult' = [findResult EXCEPT ![t] = FindRaised]
             /\ UNCHANGED register
  /\ findPc' = [findPc EXCEPT ![t] = "idle"]
  /\ UNCHANGED <<installed, mainPackage, before_import_register, adApp, adPc,
                 findName>>
  /\ UNCHANGED <<lexVars, pvVars, tagVars, tplVars, palVars>>

\* register_by_qualified_name(classname) and the rest of find: nothing is
\* written when another thread registered the name meanwhile, else the class
\* get_widget_class loads is stored under the name, or its error goes up
FindRegister(t) ==
  /\ findPc[t] = "register"
  /\ LET name == findName[t]
     IN IF name \in DOMAIN register
        THEN /\ findResult' = [findResult EXCEPT ![t] = register[name]]
             /\ UNCHANGED register
        ELSE IF name \in ImportableNames
        THEN /\ register' = (name :> ClassOf(name)) @@ register
             /\ findResult' = [findResult EXCEPT ![t] = ClassOf(name)]
        ELSE /\ findResult' = [findResult EXCEPT ![t] = FindRaised]
             /\ UNCHANGED register
  /\ findPc' = [findPc EXCEPT ![t] = "idle"]
  /\ UNCHANGED <<installed, mainPackage, before_import_register, adApp, adPc,
                 findName>>
  /\ UNCHANGED <<lexVars, pvVars, tagVars, tplVars, palVars>>

----------------------------------------------------------------------------
(* Specifications *)

PvIdle ==
  /\ pvOptions = <<>>
  /\ pvValues = EmptyDict
  /\ pvResult = NotCalled

\* the lexer on its own: construction, then consume() any number of times
InitLex == LexInit /\ PvIdle /\ TagIdle /\ TplIdle /\ PalIdle /\ RegIdle
LexNext == LexerNew \/ LexerConsume
SpecLex == InitLex /\ [][LexNext]_vars

PvNext == PvCall

\* process_values on its own
InitValues == PvInit /\ LexIdle /\ TagIdle /\ TplIdle /\ PalIdle /\ RegIdle
SpecValues == InitValues /\ [][PvNext]_vars

InitTag == TagInit /\ LexIdle /\ PvIdle /\ TplIdle /\ PalIdle /\ RegIdle
TagNext == TagCompile \/ TagRender

\* the template tag: compile, then render against any context, again and again
SpecTag == InitTag /\ [][TagNext]_vars

\* one call of parse_argument_list, statement by statement
InitParse == PalInit /\ LexIdle /\ PvIdle /\ TagIdle /\ TplIdle /\ RegIdle
ParseNext == PalStart \/ PalFind \/ PalParse \/ PalReturn
SpecParse == InitParse /\ [][ParseNext]_vars
\* the same call, which runs on while it has a statement to execute
SpecParseLive == InitParse /\ [][ParseNext]_vars /\ WF_vars(ParseNext)

InitTemplate == TplInit /\ LexIdle /\ PvIdle /\ TagIdle /\ PalIdle /\ RegIdle
TemplateNext == WrapFresh \/ WrapShared

\* page templates wrapped for one request after another
SpecTemplate == InitTemplate /\ [][TemplateNext]_vars

\* autodiscover at process start, then the finds of the request threads
InitRegistry == RegInit /\ LexIdle /\ PvIdle /\ TagIdle /\ TplIdle /\ PalIdle
RegistryNext ==
  \/ AutodiscoverApp
  \/ AutodiscoverMain
  \/ \E t \in Threads : FindCall(t)
  \/ \E t \in Threads : FindRegister(t)
SpecRegistry == InitRegistry /\ [][RegistryNext]_vars

----------------------------------------------------------------------------
(* Claims about the lexer *)

\* index of the first character equal to q at or after position j, 0 if none
RECURSIVE QuoteEnd(_, _, _)
QuoteEnd(s, q, j) ==
  IF j > Len(s) THEN 0
  ELSE IF s[j] = q THEN j
  ELSE QuoteEnd(s, q, j + 1)

\* the quoted spans of s, read left to right: a quote character outside every
\* earlier span opens a span that its next occurrence closes
RECURSIVE QuotedSpans(_, _)
QuotedSpans(s, i) ==
  IF i > Len(s) THEN {}
  ELSE IF s[i] \in {DQ, SQ} /\ QuoteEnd(s, s[i], i + 1) # 0
       THEN {<<i, QuoteEnd(s, s[i], i + 1)>>}
            \cup QuotedSpans(s, QuoteEnd(s, s[i], i + 1) + 1)
  ELSE QuotedSpans(s, i + 1)

SpanTexts(s) == {SubSeq(s, sp[1], sp[2]) : sp \in QuotedSpans(s, 1)}

HasChar(s, c) == \E k \in DOMAIN s : s[k] = c

\* a lexer just constructed from a raw string: its iterator is the token sequence
FreshFromStr ==
  /\ lexer # NoLexer
  /\ lexer.token = None
  /\ ~lexer.exhausted
  /\ lexArgs.isstr

TokensKeepSpans(s, toks) ==
  /\ \A text \in SpanTexts(s) : \E k \in DOMAIN toks : toks[k] = text
  /\ \A k \in DOMAIN toks : HasChar(toks[k], SP) => toks[k] \in SpanTexts(s)
  /\ \A k \in DOMAIN toks : Len(Strip(toks[k])) > 0

\* C10: for every raw argument string, each double-quoted or single-quoted span
\* is one token of the lexer's token sequence, quotes retained; no other token
\* holds a space; no token is empty or whitespace-only.
C10_QuotedSpansKept ==
  FreshFromStr => TokensKeepSpans(Strip(lexArgs.str), lexer.iterator)

\* the same, for the raw strings whose quoted spans hold no newline
C10_SpansWithoutNewlineKept ==
  (FreshFromStr /\ \A text \in SpanTexts(Strip(lexArgs.str)) : ~HasChar(text, NL))
    => TokensKeepSpans(Strip(lexArgs.str), lexer.iterator)

\* the token sequence the lexer expands: the split string, or the list given
InputTokens ==
  IF lexArgs.isstr THEN ReSplit(Strip(lexArgs.str)) ELSE lexArgs.list

\* a lexer just constructed: its iterator is the whole expanded sequence
Fresh == lexer # NoLexer /\ lexer.token = None /\ ~lexer.exhausted

\* the token starts with exactly one '-'
OneDash(token) ==
  /\ Len(token) >= 1 /\ token[1] = DASH
  /\ (Len(token) >= 2 => token[2] # DASH)

\* the token is empty or holds whitespace only
Blank(token) == \A k \in DOMAIN token : token[k] \in Whitespace

\* what expansion puts in the place of one token
ExpansionOf(token) ==
  IF OneDash(token) THEN [j \in 1..(Len(token) - 1) |-> <<DASH, token[j + 1]>>]
  ELSE IF Blank(token) THEN <<>>
  ELSE <<token>>

\* the expansions of the first n tokens, one after the other
RECURSIVE ExpansionsUpTo(_, _)
ExpansionsUpTo(tokens, n) ==
  IF n = 0 THEN <<>>
  ELSE ExpansionsUpTo(tokens, n - 1) \o ExpansionOf(tokens[n])

\* C11: the expanded sequence is the input sequence with each token that starts
\* with exactly one '-' replaced by one '-<char>' token per character after the
\* '-', blank tokens dropped, and every other token unchanged and in place.
C11_ExpansionInPlace ==
  Fresh => lexer.iterator = ExpansionsUpTo(InputTokens, Len(InputTokens))

\* the list ['-ab', '--a', 'a'] expands to ['-a', '-b', '--a', 'a']
C11_Witness ==
  /\ Fresh
  /\ lexArgs = ListArgs(<<<<DASH, "a", "b">>, <<DASH, DASH, "a">>, <<"a">>>>)
  /\ lexer.iterator =
       <<<<DASH, "a">>, <<DASH, "b">>, <<DASH, DASH, "a">>, <<"a">>>>

\* the stream of tokens the lexer iterates over
Stream == ExpansionsUpTo(InputTokens, Len(InputTokens))

\* the lexer stands in stream s: what it has not taken is the rest of s, its
\* token is the last one taken, and it is exhausted only at the end
CursorIn(s) ==
  LET taken == Len(s) - Len(lexer.iterator)
  IN /\ taken \in 0..Len(s)
     /\ lexer.iterator = SubSeq(s, taken + 1, Len(s))
     /\ (taken >= 1 /\ ~lexer.exhausted) => lexer.token = s[taken]
     /\ lexer.exhausted => taken = Len(s)

CursorInStream == lexer # NoLexer => CursorIn(Stream)

\* one consume over stream s: the next token of s becomes current and exhausted
\* stays false; with none left, exhausted is set; once set it stays set
Advances(s) ==
  LET taken == Len(s) - Len(lexer.iterator)
  IN /\ (taken < Len(s)) =>
          /\ lexer'.token = s[taken + 1]
          /\ Len(lexer'.iterator) = Len(lexer.iterator) - 1
          /\ ~lexer'.exhausted
     /\ (taken = Len(s)) => lexer'.exhausted
     /\ lexer.exhausted => lexer'.exhausted

ConsumeAdvances == lexer # NoLexer => Advances(Stream)

\* C12: over a stream of n tokens the k-th consume (1 <= k <= n) makes the k-th
\* token current and leaves exhausted false, the (n+1)-th consume sets exhausted,
\* and every later consume leaves it set.
C12_ConsumeProtocol == [][ConsumeAdvances]_vars /\ []CursorInStream

\* a stream of four tokens taken one by one, and a consume after the last
C12_Witness ==
  /\ lexer # NoLexer
  /\ Len(Stream) = 4
  /\ lexer.exhausted
  /\ lexer.token = Stream[4]

\* C16: once a consume has found the sequence empty, the lexer is exhausted and
\* has no current token.
C16_ExhaustedHasNoToken ==
  (lexer # NoLexer /\ lexer.exhausted) => lexer.token = None

----------------------------------------------------------------------------
(* Claims about process_values *)

PvCalled == pvResult # NotCalled

\* the names of the options declared required that are no key of the mapping
PvMissing ==
  {pvOptions[k].name : k \in {j \in DOMAIN pvOptions :
       pvOptions[j].required /\ pvOptions[j].name \notin DOMAIN pvValues}}

\* the keys of the mapping that are the name of no declared option
PvUnknown ==
  {key \in DOMAIN pvValues : \A k \in DOMAIN pvOptions : pvOptions[k].name # key}

\* C4: whenever an option declared required has its name absent from the
\* mapping's keys, process_values raises OptionError "Missing arguments" naming
\* exactly the missing names, and returns no mapping.
C4_MissingRaises ==
  (PvCalled /\ PvMissing # {}) =>
     /\ pvResult.exc = "OptionError"
     /\ pvResult.msg = "Missing arguments"
     /\ pvResult.names = PvMissing
     /\ ~pvResult.returned

\* a required name is missing and an undeclared key is present at once
C4_Witness ==
  /\ PvCalled
  /\ PvMissing # {}
  /\ PvUnknown # {}
  /\ pvResult.exc = "OptionError"

\* C5: when every required name is present and the mapping has a key that is
\* the name of no declared option, process_values raises OptionError "Unknown
\* arguments" naming exactly the unknown keys, and returns no mapping.
C5_UnknownRaises ==
  (PvCalled /\ PvMissing = {} /\ PvUnknown # {}) =>
     /\ pvResult.exc = "OptionError"
     /\ pvResult.msg = "Unknown arguments"
     /\ pvResult.names = PvUnknown
     /\ ~pvResult.returned

\* {tes: "x", bog: "y"} against a widget that declares tes
C5_Witness ==
  /\ PvCalled
  /\ N_tes \in DOMAIN pvValues
  /\ PvMissing = {}
  /\ PvUnknown = {N_bog}
  /\ pvResult.msg = "Unknown arguments"

\* C6: whenever process_values returns, the keys of the returned mapping are
\* exactly the declared option names, and each declared option's value is its
\* filter applied to the supplied value if its name was supplied, and to its
\* default otherwise.
C6_ReturnedMapping ==
  (PvCalled /\ pvResult.returned) =>
     /\ DOMAIN pvResult.ret = {pvOptions[k].name : k \in DOMAIN pvOptions}
     /\ \A k \in DOMAIN pvOptions :
          pvResult.ret[pvOptions[k].name] =
            Filter(pvOptions[k],
                   IF pvOptions[k].name \in DOMAIN pvValues
                   THEN pvValues[pvOptions[k].name]
                   ELSE pvOptions[k].default)

\* a return where one option was supplied (a falsy value at that), one took its
\* default, and a foreign key was looked up
C6_Witness ==
  /\ PvCalled
  /\ pvResult.returned
  /\ N_tes \in DOMAIN pvValues /\ pvValues[N_tes] = PyStr(<<>>)
  /\ N_d \in DOMAIN pvResult.ret /\ N_d \notin DOMAIN pvValues
  /\ N_fk \in DOMAIN pvValues /\ pvResult.ret[N_fk] = PyModel(<<"1">>)

\* process_values got as far as filtering: nothing missing, nothing unknown
PvFiltering == PvCalled /\ PvMissing = {} /\ PvUnknown = {}

\* the options of the call of these classes that a value was supplied for
SuppliedOf(classes) ==
  {pvOptions[k] : k \in {j \in DOMAIN pvOptions :
       pvOptions[j].cls \in classes /\ pvOptions[j].name \in DOMAIN pvValues}}

\* the value is the key of an entity of the lookup collection
IsEntityKey(value) == value.t \in {"str", "int"} /\ value.v \in QueryKeys

\* a non-empty key, or a non-empty list of keys, none of them an entity's
Unmatched(value) ==
  \/ value.t = "str" /\ value.v # <<>> /\ ~IsEntityKey(value)
  \/ /\ value.t = "list" /\ value.items # <<>>
     /\ \A k \in DOMAIN value.items : ~IsEntityKey(value.items[k])

\* the entities whose keys the list holds, in the order of the list
RECURSIVE EntitiesOf(_)
EntitiesOf(keys) ==
  IF keys = <<>> THEN <<>>
  ELSE EntitiesOf(SubSeq(keys, 1, Len(keys) - 1))
       \o (IF IsEntityKey(keys[Len(keys)]) THEN <<PyModel(keys[Len(keys)].v)>>
           ELSE <<>>)

\* C22 as stated: whenever a reference-typed option, single or multi-reference,
\* is given a value that matches no entity, filter raises the domain error.
C22_UnmatchedRaises ==
  (/\ PvFiltering
   /\ \E opt \in SuppliedOf({"ForeignKeyOption", "MultiForeignKeyOption"}) :
        Unmatched(pvValues[opt.name]))
  => pvResult.exc = "DoesNotExist"

\* C22 amended: a single-reference option's filter raises the domain error
\* whenever it is given a non-empty value that is no entity and matches none,
\* and process_values raises it in no other case; a multi-reference option's
\* filter never raises: for a non-empty list it returns the entities the list
\* matches, an empty result when it matches none.
C22_SingleRaisesMultiFilters ==
  PvFiltering =>
    /\ pvResult.exc = "DoesNotExist" <=>
         \E opt \in SuppliedOf({"ForeignKeyOption"}) : Unmatched(pvValues[opt.name])
    /\ pvResult.returned =>
         \A opt \in SuppliedOf({"MultiForeignKeyOption"}) :
           (pvValues[opt.name].t = "list" /\ pvValues[opt.name].items # <<>>) =>
              pvResult.ret[opt.name] = PyList(EntitiesOf(pvValues[opt.name].items))

\* fk is given the entity key 1, mfk the list ['9'] that matches nothing:
\* process_values returns, with no entity for mfk
C22_Witness ==
  /\ pvOptions = <<O_fk, O_mfk>>
  /\ pvValues = (N_fk :> PyStr(<<"1">>)) @@ (N_mfk :> PyList(<<PyStr(<<"9">>)>>))
  /\ pvResult.returned
  /\ pvResult.ret[N_fk] = PyModel(<<"1">>)
  /\ pvResult.ret[N_mfk] = PyList(<<>>)

\* fk is given the key 9 that matches nothing: the domain error
C22_SingleUnmatched ==
  /\ pvOptions = <<O_fk, O_mfk>>
  /\ pvValues = (N_fk :> PyStr(<<"9">>))
  /\ pvResult.exc = "DoesNotExist"

\* the options of the call that no value was supplied for
NotSupplied ==
  {pvOptions[k] : k \in {j \in DOMAIN pvOptions :
       pvOptions[j].name \notin DOMAIN pvValues}}

\* C24: an option that is required and declares a default still makes
\* process_values raise "Missing arguments" naming it when its name is not
\* supplied; when process_values returns, every option that was not supplied is
\* one declared not required, and its value is the filter of its default.
C24_RequiredIgnoresDefault ==
  PvCalled =>
    /\ \A opt \in NotSupplied :
         (opt.required /\ opt.default # PyNone) =>
            /\ pvResult.exc = "OptionError"
            /\ pvResult.msg = "Missing arguments"
            /\ opt.name \in pvResult.names
    /\ pvResult.returned =>
         \A opt \in NotSupplied :
           /\ ~opt.required
           /\ pvResult.ret[opt.name] = Filter(opt, opt.default)

\* TestWidget2's option, required with default "xxx", and an empty mapping
C24_Witness ==
  /\ pvOptions = <<O_tes>>
  /\ O_tes.required /\ O_tes.default = PyStr(<<"x", "x", "x">>)
  /\ pvValues = EmptyDict
  /\ pvResult.msg = "Missing arguments"
  /\ pvResult.names = {N_tes}

----------------------------------------------------------------------------
(* Claims about the template tag *)

Compiled == node # NotCompiled

\* the tokens the parser reads: the tag's arguments, flag clusters expanded
TagStream == Expanded(tagArgs)

IsFlag(token) == StartsWith(token, <<DASH>>)

\* the flags of the input, in input order
FlagsOf(tokens) == SelectSeq(tokens, IsFlag)

\* token is the short or the long form of option opt
IsFormOf(token, opt) == opt.short_form = token \/ opt.long_form = token

Declared(token) == \E k \in DOMAIN tagOptions : IsFormOf(token, tagOptions[k])

\* C1: when a token in flag position (one _find_option is asked for), or any
\* flag of the input, is the short or long form of no declared option,
\* parse_argument_list raises OptionParserError and returns no list of pairs,
\* also when earlier flags were valid and already parsed.
C1_UnknownFlagRaises ==
  (/\ Compiled
   /\ \/ \E i \in DOMAIN node.looked : ~Declared(node.looked[i])
      \/ \E i \in DOMAIN TagStream : IsFlag(TagStream[i]) /\ ~Declared(TagStream[i])
      \/ TagStream # <<>> /\ ~Declared(TagStream[1]))
  => /\ node.exc = "OptionParserError"
     /\ ~node.returned
     /\ node.values = <<>>

\* -t "x" -a against TestWidget2: the first flag is parsed, the second is unknown
C1_Witness ==
  /\ Compiled
  /\ tagOptions = <<O_tes>>
  /\ tagArgs = <<<<DASH, "t">>, <<DQ, "x", DQ>>, <<DASH, "a">>>>
  /\ node.looked = <<<<DASH, "t">>, <<DASH, "a">>>>
  /\ node.exc = "OptionParserError"
  /\ node.msg = "Unknown argument"

\* C2: when parse_argument_list succeeds it returns one pair per flag of the
\* input, in input order, and the option of the i-th pair is a declared option
\* whose short or long form equals the i-th flag exactly.
C2_PairsFollowInput ==
  (Compiled /\ node.returned) =>
     /\ Len(node.values) = Len(FlagsOf(TagStream))
     /\ \A i \in DOMAIN node.values :
          /\ \E k \in DOMAIN tagOptions : tagOptions[k] = node.values[i].opt
          /\ IsFormOf(FlagsOf(TagStream)[i], node.values[i].opt)

\* -t x -b against a class that declares b before tes: the pairs are tes, b
C2_Witness ==
  /\ Compiled
  /\ node.returned
  /\ tagOptions = <<O_b, O_mv, O_tes, O_d>>
  /\ Len(node.values) = 2
  /\ node.values[1].opt = O_tes
  /\ node.values[2].opt = O_b

\* the render got as far as the resolved dict
ResolvedBuilt == rendered.exc \notin {"notrendered", "VariableDoesNotExist"}

\* token is a bare name: no flag, no number, no quoted literal
IsBareName(token) == ~IsFlag(token) /\ ~IsNumber(token) /\ ~IsLiteral(token)

\* position i of the stream holds the last flag of scalar option opt
LastFlagOf(opt, i) ==
  /\ i \in DOMAIN TagStream
  /\ IsFormOf(TagStream[i], opt)
  /\ \A j \in DOMAIN TagStream : (j > i) => ~IsFormOf(TagStream[j], opt)

\* C3: after parsing and resolving, a scalar option given by its short or its
\* long form has the unquoted content of its value token when that token is a
\* quoted literal, whatever the context holds, and the value the context binds
\* to the token when the token is a bare name.
C3_ScalarResolved ==
  ResolvedBuilt =>
    \A k \in DOMAIN tagOptions : \A i \in 1..(Len(TagStream) - 1) :
      (tagOptions[k].cls = "Option" /\ LastFlagOf(tagOptions[k], i)) =>
        LET token == TagStream[i + 1]
            name == tagOptions[k].name
        IN /\ name \in DOMAIN rendered.resolved
           /\ IsLiteral(token) =>
                rendered.resolved[name] = PyStr(SubSeq(token, 2, Len(token) - 1))
           /\ (IsBareName(token) /\ token \in DOMAIN rendered.context) =>
                rendered.resolved[name] = rendered.context[token]

\* -a x --tes "x" rendered against {x: "abc"}: d is "abc" by reference, tes is
\* the literal "x" although the context binds x
C3_Witness ==
  /\ ResolvedBuilt
  /\ tagArgs = <<<<DASH, "a">>, <<"x">>, <<DASH, DASH, "t", "e", "s">>, <<DQ, "x", DQ>>>>
  /\ <<"x">> \in DOMAIN rendered.context
  /\ rendered.context[<<"x">>] = PyStr(<<"a", "b", "c">>)
  /\ rendered.resolved[N_d] = PyStr(<<"a", "b", "c">>)
  /\ rendered.resolved[N_tes] = PyStr(<<"x">>)

\* the Boolean options the tag's widget declares
BoolOptions ==
  {tagOptions[k] : k \in {j \in DOMAIN tagOptions : tagOptions[j].cls = "BoolOption"}}

\* a flag of the option occurs in the input
Flagged(opt) == \E i \in DOMAIN TagStream : IsFormOf(TagStream[i], opt)

\* the position in the stream of the i-th token that starts with '-'
PositionOfFlag(i) ==
  CHOOSE p \in DOMAIN TagStream :
    /\ IsFlag(TagStream[p])
    /\ Cardinality({q \in 1..p : IsFlag(TagStream[q])}) = i

\* C15: a Boolean option takes no token beyond its flag: the token right after
\* its flag, if any, is the next one looked up as a flag; its parsed value is
\* True; in the final mapping its value is True when its flag occurs in the
\* input and False when not; and it is never required, whatever its
\* constructor was passed, so it is never reported missing.
C15_BoolTakesNoToken ==
  /\ \A opt \in BoolOptions : ~opt.required
  /\ Compiled =>
       \A i \in DOMAIN node.looked : \A opt \in BoolOptions :
         IsFormOf(node.looked[i], opt) =>
           LET p == PositionOfFlag(i)
           IN /\ TagStream[p] = node.looked[i]
              /\ p < Len(TagStream) =>
                   /\ i < Len(node.looked)
                   /\ node.looked[i + 1] = TagStream[p + 1]
  /\ (Compiled /\ node.returned) =>
       \A i \in DOMAIN node.values :
         node.values[i].opt \in BoolOptions => node.values[i].value = PyBool(TRUE)
  /\ rendered.pv.returned =>
       \A opt \in BoolOptions : rendered.pv.ret[opt.name] = PyBool(Flagged(opt))
  /\ rendered.pv.exc = "OptionError" =>
       \A opt \in BoolOptions : opt.name \notin rendered.pv.names

\* -b -t x, b declared with required=True: b is True in the final mapping and
\* -t, the token after -b, was looked up as the next flag
C15_Witness ==
  /\ tagOptions = <<O_b, O_mv, O_tes, O_d>>
  /\ tagArgs = <<<<DASH, "b">>, <<DASH, "t">>, <<"x">>>>
  /\ node.looked = <<<<DASH, "b">>, <<DASH, "t">>>>
  /\ rendered.pv.returned
  /\ rendered.pv.ret[N_b] = PyBool(TRUE)

\* -t x, b declared with required=True and not flagged: b is False, not missing
C15_AbsentIsFalse ==
  /\ tagOptions = <<O_b, O_mv, O_tes, O_d>>
  /\ tagArgs = <<<<DASH, "t">>, <<"x">>>>
  /\ rendered.pv.returned
  /\ rendered.pv.ret[N_b] = PyBool(FALSE)

\* the indices of the pairs of the option with this name
PairsOf(name) == {i \in DOMAIN node.values : node.values[i].opt.name = name}

\* the positions of the stream that hold a flag of the option
FlagPositions(opt) == {i \in DOMAIN TagStream : IsFormOf(TagStream[i], opt)}

\* the index of the last pair of the option with this name
LastOf(name) == CHOOSE i \in PairsOf(name) : \A j \in PairsOf(name) : j <= i

\* when both parses returned, the parse of the whole input returned the pairs
\* of the one followed by the pairs of the other
PairsOfBoth(first, second) ==
  (first.returned /\ second.returned) =>
     /\ node.returned
     /\ node.values = first.values \o second.values

\* C17: a flag occurring again raises no error: an input that parses followed
\* by an input that parses, the same one included, parses to the pairs of both;
\* a parse that succeeds has one pair per occurrence of each option's flags; and
\* the resolved mapping holds for each option the value of its last pair.
C17_RepeatedFlagLastWins ==
  /\ Compiled =>
       \A n \in 0..Len(tagArgs) :
         PairsOfBoth(
           ParseArgumentList(tagOptions, ListArgs(SubSeq(tagArgs, 1, n))),
           ParseArgumentList(tagOptions,
                             ListArgs(SubSeq(tagArgs, n + 1, Len(tagArgs)))))
  /\ (Compiled /\ node.returned) =>
       \A k \in DOMAIN tagOptions :
         Cardinality(PairsOf(tagOptions[k].name))
           = Cardinality(FlagPositions(tagOptions[k]))
  /\ ResolvedBuilt =>
       /\ DOMAIN rendered.resolved = {node.values[i].opt.name : i \in DOMAIN node.values}
       /\ \A name \in DOMAIN rendered.resolved :
            rendered.resolved[name] =
              ResolveValue(node.values[LastOf(name)].opt, rendered.context,
                           node.values[LastOf(name)].value)

\* -t x -t 7 rendered against a context that binds x: two pairs for tes, and
\* tes resolves to 7, the value of the second
C17_Witness ==
  /\ tagArgs = <<<<DASH, "t">>, <<"x">>, <<DASH, "t">>, <<"7">>>>
  /\ <<"x">> \in DOMAIN rendered.context
  /\ Len(node.values) = 2
  /\ node.values[1].opt = O_tes /\ node.values[2].opt = O_tes
  /\ ResolvedBuilt
  /\ rendered.resolved[N_tes] = PyInt(<<"7">>)

\* the names of the options the tag's widget declares
DeclaredNames == {tagOptions[k].name : k \in DOMAIN tagOptions}

\* C23: in the tag pipeline every key of the resolved mapping handed to
\* process_values is the name of an option the widget declares, so
\* process_values never raises "Unknown arguments": the only OptionError of a
\* rendered tag is "Missing arguments".
C23_UnknownUnreachable ==
  /\ ResolvedBuilt => DOMAIN rendered.resolved \subseteq DeclaredNames
  /\ rendered.pv.msg # "Unknown arguments"
  /\ rendered.pv.exc = "OptionError" => rendered.pv.msg = "Missing arguments"

\* -b -m x without -t: b and m_v are resolved, tes is required and missing
C23_Witness ==
  /\ tagOptions = <<O_b, O_mv, O_tes, O_d>>
  /\ tagArgs = <<<<DASH, "b">>, <<DASH, "m">>, <<"x">>>>
  /\ ResolvedBuilt
  /\ DOMAIN rendered.resolved = {N_b, N_mv}
  /\ rendered.pv.exc = "OptionError"
  /\ rendered.pv.names = {N_tes}

----------------------------------------------------------------------------
(* Claims about discovery and media *)

Wrapped == wrapper.exc = "none"

\* s without the later occurrences of its elements
RECURSIVE DedupFirst(_)
DedupFirst(s) ==
  IF s = <<>> THEN <<>>
  ELSE LET front == SubSeq(s, 1, Len(s) - 1)
           last == s[Len(s)]
       IN IF \E k \in DOMAIN front : front[k] = last
          THEN DedupFirst(front)
          ELSE Append(DedupFirst(front), last)

\* the css_media lists of the nodes, one after the other
RECURSIVE DeclaredCss(_)
DeclaredCss(nodes) ==
  IF nodes = <<>> THEN <<>>
  ELSE CssMedia(Head(nodes).cls) \o DeclaredCss(Tail(nodes))

\* the js_media lists of the nodes, one after the other
RECURSIVE DeclaredJs(_)
DeclaredJs(nodes) ==
  IF nodes = <<>> THEN <<>>
  ELSE JsMedia(Head(nodes).cls) \o DeclaredJs(Tail(nodes))

\* what the media argument held: nothing when no object was passed
GivenCss == IF wrapper.given = NoMedia THEN <<>> ELSE wrapper.given.css
GivenJs == IF wrapper.given = NoMedia THEN <<>> ELSE wrapper.given.js

ParentOf(name) ==
  IF templates[name] # <<>> /\ templates[name][1].type = "ExtendsNode"
  THEN templates[name][1].ref ELSE ""

\* the templates a template names in a constant include
IncludedBy(name) ==
  {n \in TemplateNames :
     \E k \in DOMAIN GetNodesByType(templates[name], "ConstantIncludeNode") :
        GetNodesByType(templates[name], "ConstantIncludeNode")[k].ref = n}

Parents(name) == IF ParentOf(name) = "" THEN {} ELSE {ParentOf(name)}
ParentsAndIncludes(name) == Parents(name) \cup IncludedBy(name)

\* S and the static parents reached from it in n steps
RECURSIVE ChainFrom(_, _)
ChainFrom(S, n) ==
  IF n = 0 THEN S
  ELSE ChainFrom(S \cup UNION {Parents(x) : x \in S}, n - 1)

\* S and what static extends and constant includes reach from it in n steps
RECURSIVE ReachFrom(_, _)
ReachFrom(S, n) ==
  IF n = 0 THEN S
  ELSE ReachFrom(S \cup UNION {ParentsAndIncludes(x) : x \in S}, n - 1)

\* the template and its chain of static parents
ExtendsChain(name) == ChainFrom({name}, Cardinality(TemplateNames))

\* the templates reached through static extends and constant includes
Reached(name) == ReachFrom({name}, Cardinality(TemplateNames))

\* every widget node anywhere in the template
WidgetsOf(name) ==
  {GetNodesByType(templates[name], "WidgetRenderNode")[k] :
     k \in DOMAIN GetNodesByType(templates[name], "WidgetRenderNode")}

\* widget node w of template `name` sits in a block that template `child` redefines
Overridden(w, name, child) ==
  \E i \in DOMAIN GetNodesByType(templates[name], "BlockNode") :
    LET block == GetNodesByType(templates[name], "BlockNode")[i]
    IN /\ InSeq(w, GetNodesByType(block.nodelist, "WidgetRenderNode"))
       /\ \E j \in DOMAIN GetNodesByType(templates[child], "BlockNode") :
            GetNodesByType(templates[child], "BlockNode")[j].id = block.id

\* C8: the discovered nodes hold every widget node of the page template and of
\* every template of its chain of static parents, overridden blocks included.
C8_AncestorsDiscovered ==
  Wrapped =>
    \A name \in ExtendsChain(wrapper.template) :
      \A w \in WidgetsOf(name) : InSeq(w, wrapper.widget_nodes)

\* A extends B extends C: ablockC, in the block "a" that A and B redefine, is found
C8_Witness ==
  /\ Wrapped
  /\ wrapper.template = "A"
  /\ ExtendsChain("A") = {"A", "B", "C"}
  /\ Overridden(WidgetNode("ablockC", "TestWidget3"), "C", "A")
  /\ InSeq(WidgetNode("ablockC", "TestWidget3"), wrapper.widget_nodes)

\* v occurs in s and w occurs after it
OccursAfter(s, v, w) ==
  \E i \in DOMAIN s : \E j \in DOMAIN s : i < j /\ s[i] = v /\ s[j] = w

\* C9: for every template reached from the page through static extends and
\* constant includes, the widget nodes of each template it includes are in the
\* result, after the nodes of the including template.
C9_IncludesDiscovered ==
  Wrapped =>
    \A name \in Reached(wrapper.template) : \A inc \in IncludedBy(name) :
      \A w \in WidgetsOf(inc) :
        /\ InSeq(w, wrapper.widget_nodes)
        /\ \A v \in WidgetsOf(name) : OccursAfter(wrapper.widget_nodes, v, w)

\* A extends B extends C, C includes I, I includes J: wI and wJ are found
C9_Witness ==
  /\ Wrapped
  /\ wrapper.template = "A"
  /\ ParentOf("A") = "B" /\ ParentOf("B") = "C"
  /\ IncludedBy("A") = {} /\ IncludedBy("C") = {"I"} /\ IncludedBy("I") = {"J"}
  /\ OccursAfter(wrapper.widget_nodes, WidgetNode("cblockC", "Other"),
                 WidgetNode("wI", "Overlap"))
  /\ OccursAfter(wrapper.widget_nodes, WidgetNode("wI", "Overlap"),
                 WidgetNode("wJ", "Other"))

\* the template the dynamically named parent of `name` turns out to be, ""
\* when the template has no such parent
RuntimeParent(name) ==
  IF /\ templates[name] # <<>>
     /\ templates[name][1].type = "ExtendsNode"
     /\ templates[name][1].ref = ""
  THEN templates[name][1].id ELSE ""

\* the widget nodes of a set of templates
WidgetsOfAll(names) == UNION {WidgetsOf(name) : name \in names}

\* the elements of a sequence
Range(s) == {s[k] : k \in DOMAIN s}

\* the templates discovery starts from: the page, then the variable includes
Roots == {wrapper.template} \cup Range(wrapper.variable_includes)

\* what static extends and constant includes reach from the roots
ReachedFromRoots == ReachFrom(Roots, Cardinality(TemplateNames))

\* a template among those reached is reached from itself
Cyclic ==
  \E name \in ReachedFromRoots :
    name \in ReachFrom(ParentsAndIncludes(name), Cardinality(TemplateNames))

\* C18: for a page whose 'extends' parent is named dynamically, discovery fails
\* only on a cycle of static relations; when it returns, the result holds the
\* widget nodes of the page itself and of its constant includes, and no widget
\* node of the parent (unless a static relation reaches that template too).
C18_DynamicParentSkipped ==
  (wrapper # NoWrapper /\ RuntimeParent(wrapper.template) # "") =>
    /\ ~Wrapped => Cyclic
    /\ Wrapped =>
         /\ \A w \in WidgetsOf(wrapper.template) : InSeq(w, wrapper.widget_nodes)
         /\ \A inc \in IncludedBy(wrapper.template) :
              \A w \in WidgetsOf(inc) : InSeq(w, wrapper.widget_nodes)
         /\ RuntimeParent(wrapper.template) \notin ReachedFromRoots =>
              \A w \in WidgetsOf(RuntimeParent(wrapper.template)) :
                ~InSeq(w, wrapper.widget_nodes)

\* page A, parent named dynamically (B at render time), constant include I:
\* A's and I's nodes are found, B's are not
C18_Witness ==
  /\ Wrapped
  /\ wrapper.template = "A"
  /\ RuntimeParent("A") = "B"
  /\ IncludedBy("A") = {"I"}
  /\ InSeq(WidgetNode("ablockA", "TestWidget3"), wrapper.widget_nodes)
  /\ InSeq(WidgetNode("wI", "Overlap"), wrapper.widget_nodes)
  /\ ~InSeq(WidgetNode("ablockB", "Overlap"), wrapper.widget_nodes)
  /\ ~InSeq(WidgetNode("bblockB", "WidgetBase"), wrapper.widget_nodes)

\* the templates the variable includes of the templates reached from the page
\* name at render time
RuntimeIncludes ==
  {n \in TemplateNames :
     \E name \in ReachFrom({wrapper.template}, Cardinality(TemplateNames)) :
       \E k \in DOMAIN GetNodesByType(templates[name], "IncludeNode") :
         GetNodesByType(templates[name], "IncludeNode")[k].id = n}

\* nodes is, for each template of names in turn, a run holding exactly the
\* widget nodes reached from that template
RECURSIVE RunsOf(_, _)
RunsOf(nodes, names) ==
  IF names = <<>> THEN nodes = <<>>
  ELSE \E n \in 0..Len(nodes) :
         /\ Range(SubSeq(nodes, 1, n)) = WidgetsOfAll(Reached(Head(names)))
         /\ RunsOf(SubSeq(nodes, n + 1, Len(nodes)), Tail(names))

\* every asset the widget nodes of these templates declare is in the merged media
MediaHolds(names) ==
  \A w \in WidgetsOfAll(names) :
    /\ \A k \in DOMAIN CssMedia(w.cls) : InSeq(CssMedia(w.cls)[k], wrapper.media.css)
    /\ \A k \in DOMAIN JsMedia(w.cls) : InSeq(JsMedia(w.cls)[k], wrapper.media.js)

\* every entry of the merged media was in the object passed or is declared by
\* a node discovered
MediaFromNodes ==
  /\ \A k \in DOMAIN wrapper.media.css :
       \/ InSeq(wrapper.media.css[k], GivenCss)
       \/ InSeq(wrapper.media.css[k], DeclaredCss(wrapper.widget_nodes))
  /\ \A k \in DOMAIN wrapper.media.js :
       \/ InSeq(wrapper.media.js[k], GivenJs)
       \/ InSeq(wrapper.media.js[k], DeclaredJs(wrapper.widget_nodes))

\* C19: the discovered nodes are the nodes reached from the page by static
\* extends and constant includes, followed, for each template passed in the
\* variable-includes list in turn, by the nodes reached from that template; a
\* template named only by a variable include and not passed contributes no node,
\* and the merged media holds the passed templates' assets and nothing that is
\* neither a discovered node's nor in the media object passed.
C19_VariableIncludesAsPassed ==
  Wrapped =>
    /\ RunsOf(wrapper.widget_nodes, <<wrapper.template>> \o wrapper.variable_includes)
    /\ \A name \in RuntimeIncludes :
         name \notin ReachedFromRoots =>
           \A w \in WidgetsOf(name) : ~InSeq(w, wrapper.widget_nodes)
    /\ MediaHolds(Range(wrapper.variable_includes))
    /\ MediaFromNodes

\* page A without parent or constant include, I passed as a variable include,
\* I including J: the nodes of I and J follow those of A, and the assets of
\* J's widget are in the media
C19_Witness ==
  /\ Wrapped
  /\ wrapper.template = "A"
  /\ wrapper.variable_includes = <<"I">>
  /\ wrapper.widget_nodes =
       <<WidgetNode("ablockA", "TestWidget3"), WidgetNode("cblockA", "TestWidget3"),
         WidgetNode("wI", "Overlap"), WidgetNode("wJ", "Other")>>
  /\ \A k \in DOMAIN CssMedia("Other") : InSeq(CssMedia("Other")[k], wrapper.media.css)

\* the same page with nothing passed: I, named by the page's variable include,
\* contributes no node
C19_NotPassed ==
  /\ Wrapped
  /\ wrapper.template = "A"
  /\ wrapper.variable_includes = <<>>
  /\ "I" \in RuntimeIncludes
  /\ wrapper.widget_nodes =
       <<WidgetNode("ablockA", "TestWidget3"), WidgetNode("cblockA", "TestWidget3")>>

\* a wrapping that holds the caller's media object takes place after one that
\* holds it too, or changes what that one's descriptor holds
SharedStep ==
  (Wrapped /\ wrapper.shared) =>
    /\ hostMedia' = wrapper.media
    /\ ~(wrapper' # wrapper /\ wrapper'.exc = "none" /\ wrapper'.shared)

\* C20: the media descriptor of a wrapping is made for that wrapping and not
\* changed after discovery: no wrapping holds the media object another wrapping
\* holds, also when the caller passes one, and no later step changes what the
\* descriptor of a wrapping holds.
C20_MediaFreshPerWrapping == [][SharedStep]_vars

----------------------------------------------------------------------------
(* Claims about the options' parse_tokens *)

\* the option whose flag was just found, about to parse its value
Parsing(classes) == palPc = "parse" /\ palOptions[palOpt].cls \in classes

\* the token starts with '-'
Dashed(token) == Len(token) >= 1 /\ token[1] = DASH

\* the tokens from the cursor on: none once the lexer is exhausted
Ahead == IF palLexer.exhausted THEN <<>> ELSE <<palLexer.token>> \o palLexer.iterator

\* after the step the cursor stands n tokens further, exhausted past the last
CursorMoved(n) ==
  IF n < Len(Ahead)
  THEN /\ ~palLexer'.exhausted
       /\ palLexer'.token = Ahead[n + 1]
       /\ palLexer'.iterator = SubSeq(Ahead, n + 2, Len(Ahead))
  ELSE /\ palLexer'.exhausted
       /\ palLexer'.iterator = <<>>

\* the step appended the pair of the option found and this value
Appended(value) ==
  /\ palPc' = "find"
  /\ palValues' = Append(palValues, [opt |-> palOptions[palOpt], value |-> value])

\* the parse of a scalar option: one value token taken, or OptionParserError
\* when a flag or nothing follows
ScalarStep ==
  Parsing({"Option", "ForeignKeyOption"}) =>
    IF Ahead # <<>> /\ ~Dashed(Ahead[1])
    THEN Appended(Variable(Ahead[1])) /\ CursorMoved(1)
    ELSE palPc' = "raised" /\ palValues' = palValues

\* C13: a scalar option's parse succeeds exactly when the token following its
\* flag exists and is not a flag; it then takes that one token and leaves the
\* cursor on the next token or exhausted; it raises OptionParserError when a
\* flag follows and when the flag is the last token of the input.
C13_ScalarTakesOneValue == [][ScalarStep]_vars

\* the same, for the options whose short form starts with '-'
C13_DashedScalarTakesOneValue ==
  [][(palPc = "parse" /\ Dashed(palOptions[palOpt].short_form)) => ScalarStep]_vars

\* the length of the run of tokens without '-' that s starts with
RunLength(s) ==
  CHOOSE n \in 0..Len(s) :
    /\ \A k \in 1..n : ~Dashed(s[k])
    /\ n < Len(s) => Dashed(s[n + 1])

\* the parse of a multi-valued option: the whole run taken, in order
MultiStep ==
  Parsing(MultiClasses) =>
    LET n == RunLength(Ahead)
    IN /\ Appended(PyList([k \in 1..n |-> Variable(Ahead[k])]))
       /\ CursorMoved(n)

\* C14: a multi-valued option's parse takes exactly the maximal run of
\* consecutive non-flag tokens that follows its flag, returns them in input
\* order (an empty sequence for an empty run), raises no error, and leaves the
\* cursor on the flag that ended the run or exhausted.
C14_MultiTakesRun == [][MultiStep]_vars

\* -m w x -t: the run w x is the value and the cursor stands on -t
C14_Witness ==
  /\ palArgs = <<<<DASH, "m">>, <<"w">>, <<"x">>, <<DASH, "t">>>>
  /\ palPc = "find"
  /\ Len(palValues) = 1
  /\ palValues[1].value = PyList(<<Variable(<<"w">>), Variable(<<"x">>)>>)
  /\ palLexer.token = <<DASH, "t">>
  /\ ~palLexer.exhausted

\* the tokens the loop has yet to pass: the current one and those behind it
Remaining(lx) == IF lx.exhausted THEN 0 ELSE Len(lx.iterator) + 1

\* one statement of the loop: finding an option takes its flag off the stream;
\* parse_tokens takes nothing back, a Boolean option leaves the lexer as it is,
\* a multi-valued option stops on a flag or at exhaustion
LoopAdvances ==
  /\ (palPc = "find" /\ palPc' = "parse") =>
       Remaining(palLexer') < Remaining(palLexer)
  /\ palPc = "parse" =>
       /\ Remaining(palLexer') <= Remaining(palLexer)
       /\ palOptions[palOpt].cls = "BoolOption" => palLexer' = palLexer
       /\ palOptions[palOpt].cls \in MultiClasses =>
            palLexer'.exhausted \/ Dashed(palLexer'.token)

\* the call is over: it returned its pairs or raised OptionParserError
ParseOver == palPc \in {"returned", "raised"}

\* C26: parse_argument_list terminates on every token sequence, with a result
\* or an OptionParserError: every iteration of its loop takes at least the flag
\* token off the stream, a Boolean option takes nothing more, and a
\* multi-valued option's loop stops at the next flag or at exhaustion.
C26_ParseTerminates == <>ParseOver /\ [][LoopAdvances]_vars

\* -b -m x x, as many tokens as the arguments may hold: the call returned after
\* a Boolean and a multi-valued option
C26_Witness ==
  /\ palPc = "returned"
  /\ Len(palArgs) = MaxArgs
  /\ Len(palValues) = 2
  /\ palValues[1].opt.cls = "BoolOption"
  /\ palValues[2].opt.cls = "MultiOption"
  /\ palLexer.exhausted

\* the static relations of a template, one entry per 'extends' with a static
\* parent and per constant 'include', naming the template it leads to
Relations(name) ==
  Refs(SelectSeq(GetNodesByType(templates[name], "ExtendsNode"), IsStatic))
  \o Refs(GetNodesByType(templates[name], "ConstantIncludeNode"))

\* the number of paths of static relations from one template to another, of at
\* most `fuel` templates
RECURSIVE PathCount(_, _, _)
RECURSIVE PathCountVia(_, _, _)
PathCount(from, to, fuel) ==
  IF fuel = 0 THEN 0
  ELSE (IF from = to THEN 1 ELSE 0) + PathCountVia(Relations(from), to, fuel - 1)

PathCountVia(refs, to, fuel) ==
  IF refs = <<>> THEN 0
  ELSE PathCount(Head(refs), to, fuel) + PathCountVia(Tail(refs), to, fuel)

\* the number of paths to a template from the page and the variable includes
RECURSIVE PathsFrom(_, _)
PathsFrom(roots, to) ==
  IF roots = <<>> THEN 0
  ELSE PathCount(Head(roots), to, Cardinality(TemplateNames) + 1)
       + PathsFrom(Tail(roots), to)

\* how many times v occurs in s
RECURSIVE Occurrences(_, _)
Occurrences(v, s) ==
  IF s = <<>> THEN 0
  ELSE (IF Head(s) = v THEN 1 ELSE 0) + Occurrences(v, Tail(s))

\* C27: discovery returns exactly when the static 'extends' and constant
\* 'include' relations reached from the page and the variable includes hold no
\* cycle; it then visits each template once per path of relations leading to
\* it (no more, and no fewer: nothing guards against a second visit), so each
\* widget node occurs in the result as many times as its template has paths.
C27_AcyclicTerminates ==
  wrapper # NoWrapper =>
    /\ Wrapped <=> ~Cyclic
    /\ Wrapped =>
         \A name \in TemplateNames : \A w \in WidgetsOf(name) :
           Occurrences(w, wrapper.widget_nodes) =
             PathsFrom(<<wrapper.template>> \o wrapper.variable_includes, name)

\* A extends B extends C, A and C both include I, I includes J, and I is
\* passed as a variable include too: discovery returns, with wJ three times
C27_Witness ==
  /\ Wrapped
  /\ wrapper.template = "A"
  /\ wrapper.variable_includes = <<"I">>
  /\ ParentOf("A") = "B" /\ ParentOf("B") = "C"
  /\ IncludedBy("A") = {"I"} /\ IncludedBy("C") = {"I"}
  /\ IncludedBy("I") = {"J"}
  /\ ~Cyclic
  /\ Occurrences(WidgetNode("wJ", "Other"), wrapper.widget_nodes) = 3
  /\ Occurrences(WidgetNode("ablockA", "TestWidget3"), wrapper.widget_nodes) = 1

----------------------------------------------------------------------------
(* Claims about the registry *)

\* autodiscover is over and the request threads look classes up
Populated == adPc = "done"

\* C21 as stated: once the registry is populated, no lookup writes to it: the
\* finds of the request threads leave its contents as they are.
C21_LookupsNeverWrite == [][Populated => register' = register]_vars

\* a find that missed stores the class it loaded under the name looked up
LazyRegistration ==
  \E t \in Threads :
    /\ findPc[t] = "register"
    /\ findName[t] \notin DOMAIN register
    /\ findName[t] \in ImportableNames
    /\ register' = (findName[t] :> ClassOf(findName[t])) @@ register
    /\ findResult'[t] = ClassOf(findName[t])

\* C21: once the registry is populated, a find of a registered name never
\* writes; a find of a name that is not registered adds that one name with the
\* class loaded for it; no find changes or removes an entry, whatever the
\* interleaving of the request threads.
C21_LookupsOnlyAdd ==
  [][Populated =>
       /\ register' # register => LazyRegistration
       /\ \A name \in DOMAIN register :
            name \in DOMAIN register' /\ register'[name] = register[name]]_vars

\* both threads looked lib.widgets.Lazy up after autodiscover: it is in the
\* registry beside the classes of app a, and both were given the class
C21_Witness ==
  /\ Populated
  /\ "lib.widgets.Lazy" \in DOMAIN register
  /\ "a.widgets.W1" \in DOMAIN register
  /\ \A t \in Threads :
       /\ findPc[t] = "idle"
       /\ findName[t] = "lib.widgets.Lazy"
       /\ findResult[t] = ClassOf("lib.widgets.Lazy")

\* the unit autodiscover is about to attempt fails with an exception
UnitFails ==
  /\ adPc = "apps"
  /\ IF adApp <= Len(installed)
     THEN ~installed[adApp].importable \/ installed[adApp].raises
     ELSE ~mainPackage.importable \/ mainPackage.raises

\* C25: an exception while autodiscover registers one unit (an app's widgets,
\* or the main package at the end) leaves the registry with exactly the entries
\* it held just before that unit was attempted.
C25_FailedUnitRestored == [][UnitFails => register' = register]_vars

=============================================================================
